---- MODULE Spec2Model ----
(***************************************************************************)
(* A model of the docstring generation agent (src/app/agents.py,           *)
(* src/app/tools.py, src/app/models.py).                                   *)
(*                                                                         *)
(* Representation.                                                         *)
(*  - Text (identifiers, type texts, unparsed expressions) is a sequence   *)
(*    of one-character strings, so that the substring, prefix and suffix   *)
(*    tests of the code are computed and not assumed.                      *)
(*  - An Optional[str] is a sequence of length 0 (None) or 1 (the text).   *)
(*  - A parsed unit is a sequence of AST nodes; node i names its parent    *)
(*    (0 is the Module) and the children of a node are listed in index     *)
(*    order, which is the order of ast.iter_child_nodes.                   *)
(*  - Scores are floats in the code whose only fractional coefficient is   *)
(*    0.5; they are kept here in half points (value * 2), which is exact.  *)
(***************************************************************************)
EXTENDS Integers, Sequences, FiniteSets, TLC

VARIABLES
    stats,                \* DocstringAgent.stats
    complexity_analyzer,  \* DocstringAgent.complexity_analyzer (its fields)
    config,               \* DocstringAgent.config (docstring_style)
    docstring_builder,    \* DocstringAgent.docstring_builder (style)
    hash_seed,            \* the interpreter's string hash seed (fixed per process)
    unit,                 \* the source under study
    arg,                  \* argument of the last operation
    ret,                  \* what the last operation returned
    op,                   \* the last operation
    calls,                \* number of operations performed so far
    ref                   \* an earlier call kept for comparison

vars == <<stats, complexity_analyzer, config, docstring_builder, hash_seed,
          unit, arg, ret, op, calls, ref>>

(***************************************************************************)
(* Bounds of the model                                                     *)
(***************************************************************************)
MaxNodes == 3
MaxCalls == 3
MaxOperands == 41
MaxPad == 400
MaxParams == 16
MaxArgs == 4
MaxSeed == 2
MaxExampleArgs == 3
MaxMethods == 70

(***************************************************************************)
(* Text                                                                    *)
(***************************************************************************)
UpperAlpha == <<"A","B","C","D","E","F","G","H","I","J","K","L","M",
                "N","O","P","Q","R","S","T","U","V","W","X","Y","Z">>
LowerAlpha == <<"a","b","c","d","e","f","g","h","i","j","k","l","m",
                "n","o","p","q","r","s","t","u","v","w","x","y","z">>

LowerChar(c) ==
    IF \E i \in 1..26 : UpperAlpha[i] = c
    THEN LowerAlpha[CHOOSE i \in 1..26 : UpperAlpha[i] = c]
    ELSE c

\* str.lower()
Lower(s) == [i \in 1..Len(s) |-> LowerChar(s[i])]

\* sub in s
Contains(s, sub) ==
    \E i \in 0..(Len(s) - Len(sub)) :
        \A j \in 1..Len(sub) : s[i + j] = sub[j]

\* s.startswith(p)
StartsWith(s, p) ==
    /\ Len(p) <= Len(s)
    /\ \A j \in 1..Len(p) : s[j] = p[j]

\* s.endswith(p)
EndsWith(s, p) ==
    /\ Len(p) <= Len(s)
    /\ \A j \in 1..Len(p) : s[Len(s) - Len(p) + j] = p[j]

\* s.split('(')[0]
RECURSIVE BeforeParen(_)
BeforeParen(s) ==
    IF s = <<>> \/ Head(s) = "(" THEN <<>>
    ELSE <<Head(s)>> \o BeforeParen(Tail(s))

\* Optional values
None == <<>>
Some(x) == <<x>>
IsNone(o) == o = <<>>
\* truthiness of an Optional[str]: None and "" are falsy
Truthy(o) == o # <<>> /\ o[1] # <<>>

Min(a, b) == IF a < b THEN a ELSE b
Max(a, b) == IF a > b THEN a ELSE b

\* The words the code tests for or produces
T_self == <<"s","e","l","f">>
T_cls == <<"c","l","s">>
T_int == <<"i","n","t">>
T_float == <<"f","l","o","a","t">>
T_str == <<"s","t","r">>
T_bool == <<"b","o","o","l">>
T_list == <<"l","i","s","t">>
T_dict == <<"d","i","c","t">>
T_count == <<"c","o","u","n","t">>
T_num == <<"n","u","m">>
T_id == <<"i","d">>
T_name == <<"n","a","m","e">>
T_text == <<"t","e","x","t">>
T_message == <<"m","e","s","s","a","g","e">>
T_flag == <<"f","l","a","g">>
T_is_ == <<"i","s","_">>
T_has_ == <<"h","a","s","_">>
T_items == <<"i","t","e","m","s">>
T_map == <<"m","a","p">>
T_create == <<"c","r","e","a","t","e">>
T_build == <<"b","u","i","l","d">>
T_make == <<"m","a","k","e">>
T_get_instance == <<"g","e","t","_","i","n","s","t","a","n","c","e">>
T_instance == <<"i","n","s","t","a","n","c","e">>
T__instance == <<"_","i","n","s","t","a","n","c","e">>
T___new__ == <<"_","_","n","e","w","_","_">>
T_Factory == <<"F","a","c","t","o","r","y">>
T_Builder == <<"B","u","i","l","d","e","r">>
T_Mixin == <<"M","i","x","i","n">>
T_ABC == <<"A","B","C">>
T_abstractmethod == <<"a","b","s","t","r","a","c","t","m","e","t","h","o","d">>
T_dataclass == <<"d","a","t","a","c","l","a","s","s">>
T_property == <<"p","r","o","p","e","r","t","y">>
T_setter == <<"s","e","t","t","e","r">>
T_value == <<"v","a","l","u","e">>
T_example == <<"e","x","a","m","p","l","e">>
T_Any == <<"A","n","y">>
T_title == <<"t","i","t","l","e">>
T_ValueError == <<"V","a","l","u","e","E","r","r","o","r">>
T_TypeError == <<"T","y","p","e","E","r","r","o","r">>

T_wrapper == <<"w","r","a","p","p","e","r">>
T_wrapped == <<"w","r","a","p","p","e","d">>
T_decorator == <<"d","e","c","o","r","a","t","o","r">>
T_notify == <<"n","o","t","i","f","y">>
T_subscribe == <<"s","u","b","s","c","r","i","b","e">>
T_update == <<"u","p","d","a","t","e">>
T_observer == <<"o","b","s","e","r","v","e","r">>
T_strategy == <<"s","t","r","a","t","e","g","y">>
T_algorithm == <<"a","l","g","o","r","i","t","h","m">>
T_execute == <<"e","x","e","c","u","t","e">>
T_builder == <<"b","u","i","l","d","e","r">>
T_construct == <<"c","o","n","s","t","r","u","c","t">>
T_adapt == <<"a","d","a","p","t">>
T_adapter == <<"a","d","a","p","t","e","r">>
T___enter__ == <<"_","_","e","n","t","e","r","_","_">>
T___exit__ == <<"_","_","e","x","i","t","_","_">>

Quoted(s) == <<"\"">> \o s \o <<"\"">>

(***************************************************************************)
(* AST nodes                                                               *)
(***************************************************************************)
\* A node with every field at its default; the builders below set the
\* fields a kind of node has.
Node(kind, parent) ==
    [kind |-> kind, parent |-> parent, name |-> <<>>, posonlyargs |-> <<>>,
     args |-> <<>>, defaults |-> <<>>, returns |-> None, decorator_list |-> <<>>,
     bases |-> <<>>, docstring |-> None, exc |-> None, values |-> 0,
     targets |-> <<>>, func |-> None,
     lineno |-> 1, end_lineno |-> 1]

\* ast.arg(arg, annotation)
Arg(name, annotation) == [arg |-> name, annotation |-> annotation]

\* a decorator expression: its node class, its id (Name) or attr
\* (Attribute), and its ast.unparse text
Decorator(cls, id, text) == [cls |-> cls, id |-> id, text |-> text]

\* an assignment target: its node class and, for a Name, its id
Target(cls, id) == [cls |-> cls, id |-> id]

KindOf(t, i) == IF i = 0 THEN "Module" ELSE t[i].kind

FunctionKinds == {"FunctionDef", "AsyncFunctionDef"}

\* ast.iter_child_nodes(node): the children of node i, in order
RECURSIVE ChildrenFrom(_, _, _)
ChildrenFrom(t, i, j) ==
    IF j > Len(t) THEN <<>>
    ELSE (IF t[j].parent = i THEN <<j>> ELSE <<>>) \o ChildrenFrom(t, i, j + 1)

Children(t, i) == ChildrenFrom(t, i, 1)

\* ast.walk(node): breadth first, a deque extended with each node's children
RECURSIVE WalkQueue(_, _)
WalkQueue(t, todo) ==
    IF todo = <<>> THEN <<>>
    ELSE <<Head(todo)>> \o WalkQueue(t, Tail(todo) \o Children(t, Head(todo)))

Walk(t, i) == WalkQueue(t, <<i>>)

SeqToSet(s) == {s[i] : i \in 1..Len(s)}

\* the nodes from node i up to the root
RECURSIVE PathToRoot(_, _)
PathToRoot(t, i) == IF i = 0 THEN {} ELSE {i} \cup PathToRoot(t, t[i].parent)

\* the nodes of the subtree of node i
Subtree(t, i) == {j \in 1..Len(t) : i \in PathToRoot(t, j)}

(***************************************************************************)
(* ComplexityAnalyzer (tools.py)                                           *)
(***************************************************************************)
\* ComplexityAnalyzer.__init__
NewComplexityAnalyzer == [complexity |-> 1, return_count |-> 0, lines_of_code |-> 0]

\* the visit_* methods: what visiting one node adds before generic_visit
VisitNode(n, a) ==
    IF n.kind \in {"If", "For", "While", "ExceptHandler", "With"}
    THEN [a EXCEPT !.complexity = @ + 1]
    ELSE IF n.kind = "Return"
    THEN [a EXCEPT !.return_count = @ + 1]
    ELSE IF n.kind = "BoolOp"
    THEN [a EXCEPT !.complexity = @ + (n.values - 1)]
    ELSE a

\* NodeVisitor.visit / generic_visit: depth first over the subtree of node i
RECURSIVE Visit(_, _, _), VisitEach(_, _, _)
Visit(t, i, a) == VisitEach(t, Children(t, i), VisitNode(t[i], a))

VisitEach(t, todo, a) ==
    IF todo = <<>> THEN a
    ELSE VisitEach(t, Tail(todo), Visit(t, Head(todo), a))

\* analyze_function, lines 101-102: the counters are reset before the visit
ResetCountersZero(a) == [a EXCEPT !.complexity = 0, !.return_count = 0]
KeepCounters(a) == a
ResetCounters(a) == [a EXCEPT !.complexity = 1, !.return_count = 0]

\* analyze_function: the analyzer after the call
AnalyzerAfterFunction(t, i, a) == Visit(t, i, ResetCounters(a))

\* max(0, 100 - complexity * 3 - loc * 0.5), in tenths
FunctionMaintainabilityNoFloor(complexity, loc) == 1000 - complexity * 30 - loc * 5
FunctionMaintainability(complexity, loc) == Max(0, 1000 - complexity * 30 - loc * 5)

\* analyze_function: the CodeMetrics returned
MetricsOfFunction(t, i, after) ==
    LET loc == t[i].end_lineno - t[i].lineno + 1
    IN [cyclomatic_complexity |-> after.complexity,
        lines_of_code |-> loc,
        num_parameters |-> Len(t[i].args),
        num_return_statements |-> after.return_count,
        has_type_hints |-> (\E k \in 1..Len(t[i].args) : t[i].args[k].annotation # None)
                           \/ t[i].returns # None,
        quality_score |-> 0,
        maintainability_index |-> FunctionMaintainability(after.complexity, loc)]

\* analyze_function
AnalyzeFunction(t, i, a) == MetricsOfFunction(t, i, AnalyzerAfterFunction(t, i, a))

(***************************************************************************)
(* DocstringAgent._extract_function_info (agents.py)                       *)
(***************************************************************************)
ParameterInfo(name, type_hint) ==
    [name |-> name, type_hint |-> type_hint, default_value |-> None]

\* lines 313-321: one ParameterInfo per element of node.args.args that is
\* not named self or cls
RECURSIVE RecordedParameters(_)
RecordedParameters(args) ==
    IF args = <<>> THEN <<>>
    ELSE (IF Head(args).arg \in {T_self, T_cls} THEN <<>>
          ELSE <<ParameterInfo(Head(args).arg, Head(args).annotation)>>)
         \o RecordedParameters(Tail(args))

\* lines 324-330: default i (from 0) goes to the recorded parameter at
\* len(parameters) - num_defaults + i when that index is not negative
AddDefaults(parameters, defaults) ==
    [j \in 1..Len(parameters) |->
        LET d == j - (Len(parameters) - Len(defaults))
        IN IF d >= 1 /\ d <= Len(defaults)
           THEN [parameters[j] EXCEPT !.default_value = Some(defaults[d])]
           ELSE parameters[j]]

\* lines 340-341: a name is appended unless already recorded
RecordRaiseAlways(raises, exc_name) == Append(raises, exc_name)
RecordRaise(raises, exc_name) ==
    IF exc_name \in SeqToSet(raises) THEN raises ELSE Append(raises, exc_name)

\* lines 337-341: over ast.walk(node), every Raise that has an exc
RECURSIVE CollectRaises(_, _, _)
CollectRaises(t, todo, raises) ==
    IF todo = <<>> THEN raises
    ELSE LET child == t[Head(todo)]
         IN CollectRaises(t, Tail(todo),
                IF child.kind = "Raise" /\ child.exc # None
                THEN RecordRaise(raises, BeforeParen(child.exc[1]))
                ELSE raises)

ExtractFunctionInfo(t, i) ==
    LET node == t[i]
    IN [name |-> node.name,
        is_async |-> node.kind = "AsyncFunctionDef",
        is_method |-> node.args # <<>> /\ node.args[1].arg \in {T_self, T_cls},
        is_property |-> \E k \in 1..Len(node.decorator_list) :
                            /\ node.decorator_list[k].cls = "Name"
                            /\ node.decorator_list[k].id = T_property,
        parameters |-> AddDefaults(RecordedParameters(node.args), node.defaults),
        return_type |-> node.returns,
        raises |-> CollectRaises(t, Walk(t, i), <<>>),
        decorators |-> [k \in 1..Len(node.decorator_list) |-> node.decorator_list[k].text],
        existing_docstring |-> node.docstring]

(***************************************************************************)
(* PatternDetector (tools.py)                                              *)
(***************************************************************************)
\* COMMON_PATTERNS, in the order of the dict
COMMON_PATTERNS ==
    <<[pattern |-> "factory", keywords |-> {T_create, T_build, T_make, T_get_instance}],
      [pattern |-> "singleton", keywords |-> {T___new__, T__instance, T_get_instance}],
      [pattern |-> "decorator", keywords |-> {T_wrapper, T_wrapped, T_decorator}],
      [pattern |-> "observer", keywords |-> {T_notify, T_subscribe, T_update, T_observer}],
      [pattern |-> "strategy", keywords |-> {T_strategy, T_algorithm, T_execute}],
      [pattern |-> "builder", keywords |-> {T_builder, T_build, T_construct}],
      [pattern |-> "adapter", keywords |-> {T_adapt, T_adapter, T_wrapper}]>>

\* every label either detector can produce
PatternLabels ==
    <<"factory", "singleton", "decorator", "observer", "strategy", "builder",
      "adapter", "property_getter", "property_setter", "context_manager",
      "generator", "async_function", "recursive", "dataclass",
      "abstract_base_class", "mixin">>

LabelIndex(l) == CHOOSE k \in 1..Len(PatternLabels) : PatternLabels[k] = l

\* The slot order of a set of str: fixed by the strings' hashes, which the
\* interpreter draws from its hash seed at start. Seed s orders the labels
\* by LabelIndex * (s + 1) modulo the prime 17.
SlotOf(seed, l) == (LabelIndex(l) * (seed + 1)) % 17

RECURSIVE ListOfSet(_, _)
\* list(set(patterns))
ListOfSet(seed, S) ==
    IF S = {} THEN <<>>
    ELSE LET first == CHOOSE l \in S : \A m \in S : SlotOf(seed, l) <= SlotOf(seed, m)
         IN <<first>> \o ListOfSet(seed, S \ {first})

HasDecoratorName(node, id) ==
    \E k \in 1..Len(node.decorator_list) :
        node.decorator_list[k].cls = "Name" /\ node.decorator_list[k].id = id

_is_property_getter(t, i) == HasDecoratorName(t[i], T_property)

_is_property_setter(t, i) ==
    \E k \in 1..Len(t[i].decorator_list) :
        t[i].decorator_list[k].cls = "Attribute" /\ t[i].decorator_list[k].id = T_setter

_is_context_manager(t, i) == t[i].name \in {T___enter__, T___exit__}

_is_generator(t, i) == \E j \in SeqToSet(Walk(t, i)) : t[j].kind = "Yield"

_is_async_function(t, i) == t[i].kind = "AsyncFunctionDef"

_is_recursive(t, i) ==
    \E j \in SeqToSet(Walk(t, i)) :
        t[j].kind = "Call" /\ t[j].func = Some(t[i].name)

\* detect_function_patterns: the labels appended, then list(set(...))
DetectFunctionPatterns(t, i, seed) ==
    LET func_name == Lower(t[i].name)
        by_name == {COMMON_PATTERNS[k].pattern : k \in
                      {k \in 1..Len(COMMON_PATTERNS) :
                          \E keyword \in COMMON_PATTERNS[k].keywords :
                              Contains(func_name, keyword)}}
        by_shape == {l \in {"property_getter", "property_setter", "context_manager",
                            "generator", "async_function", "recursive"} :
                        \/ l = "property_getter" /\ _is_property_getter(t, i)
                        \/ l = "property_setter" /\ _is_property_setter(t, i)
                        \/ l = "context_manager" /\ _is_context_manager(t, i)
                        \/ l = "generator" /\ _is_generator(t, i)
                        \/ l = "async_function" /\ _is_async_function(t, i)
                        \/ l = "recursive" /\ _is_recursive(t, i)}
    IN ListOfSet(seed, by_name \cup by_shape)

\* node.body of a class: the statements directly in it
Body(t, i) == SeqToSet(Children(t, i))

_is_singleton(t, i) ==
    LET has_new == \E n \in Body(t, i) :
                       t[n].kind = "FunctionDef" /\ t[n].name = T___new__
        has_instance == \E n \in Body(t, i) :
                            /\ t[n].kind = "Assign"
                            /\ \E k \in 1..Len(t[n].targets) :
                                   /\ t[n].targets[k].cls = "Name"
                                   /\ Contains(Lower(t[n].targets[k].id), T_instance)
    IN has_new \/ has_instance

_is_factory(t, i) ==
    \/ EndsWith(t[i].name, T_Factory)
    \/ \E n \in Body(t, i) :
           t[n].kind = "FunctionDef" /\ Contains(Lower(t[n].name), T_create)

_is_builder(t, i) ==
    \/ EndsWith(t[i].name, T_Builder)
    \/ \E n \in Body(t, i) : t[n].kind = "FunctionDef" /\ t[n].name = T_build

_is_dataclass(t, i) == HasDecoratorName(t[i], T_dataclass)

_is_abstract(t, i) ==
    LET has_abc_base == \E k \in 1..Len(t[i].bases) : Contains(t[i].bases[k], T_ABC)
        has_abstract_method ==
            \E n \in Body(t, i) :
                /\ t[n].kind = "FunctionDef"
                /\ \E k \in 1..Len(t[n].decorator_list) :
                       Contains(t[n].decorator_list[k].text, T_abstractmethod)
    IN has_abc_base \/ has_abstract_method

_is_mixin(t, i) == EndsWith(t[i].name, T_Mixin)

\* detect_class_patterns: the labels appended, then list(set(...))
DetectClassPatterns(t, i, seed) ==
    ListOfSet(seed,
        {l \in {"singleton", "factory", "builder", "dataclass",
                "abstract_base_class", "mixin"} :
            \/ l = "singleton" /\ _is_singleton(t, i)
            \/ l = "factory" /\ _is_factory(t, i)
            \/ l = "builder" /\ _is_builder(t, i)
            \/ l = "dataclass" /\ _is_dataclass(t, i)
            \/ l = "abstract_base_class" /\ _is_abstract(t, i)
            \/ l = "mixin" /\ _is_mixin(t, i)})

(***************************************************************************)
(* ExampleGenerator (tools.py)                                             *)
(***************************************************************************)
V_42 == <<"4","2">>
V_3_14 == <<"3",".","1","4">>
V_True == <<"T","r","u","e">>
V_list == <<"[","]">>
V_dict == <<"{","}">>
V_1 == <<"1">>
X_prompt == <<" "," "," "," ",">",">",">"," ">>
X_no_arguments == <<"(",")","\n"," "," "," "," ","#"," ","R","e","t","u","r","n","s"," ","r","e","s","u","l","t">>
X_await == <<"a","w","a","i","t"," ">>
X_returns_result == <<")","\n"," "," "," "," ","#"," ","R","e","t","u","r","n","s"," ","r","e","s","u","l","t">>
X_result == <<"r","e","s","u","l","t"," ","="," ">>
X_print_result == <<")","\n"," "," "," "," ",">",">",">"," ","p","r","i","n","t","(","r","e","s","u","l","t",")">>
X_comma == <<","," ">>
X_equals == <<"=">>
X_open == <<"(">>

\* _infer_param_value, lines 395-408: the value the type hint gives, None
\* when there is no hint or the hint matches no rule
ValueFromType(param) ==
    IF ~Truthy(param.type_hint) THEN None
    ELSE LET type_lower == Lower(param.type_hint[1])
         IN IF Contains(type_lower, T_int) THEN Some(V_42)
            ELSE IF Contains(type_lower, T_float) THEN Some(V_3_14)
            ELSE IF Contains(type_lower, T_str) THEN Some(Quoted(T_example))
            ELSE IF Contains(type_lower, T_bool) THEN Some(V_True)
            ELSE IF Contains(type_lower, T_list) THEN Some(V_list)
            ELSE IF Contains(type_lower, T_dict) THEN Some(V_dict)
            ELSE None

\* _infer_param_value, lines 411-423: the value the parameter name gives
ValueFromName(param) ==
    LET name_lower == Lower(param.name)
    IN IF Contains(name_lower, T_count) \/ Contains(name_lower, T_num)
          \/ Contains(name_lower, T_id) THEN V_1
       ELSE IF Contains(name_lower, T_name) \/ Contains(name_lower, T_text)
          \/ Contains(name_lower, T_message) THEN Quoted(param.name)
       ELSE IF Contains(name_lower, T_flag) \/ Contains(name_lower, T_is_)
          \/ Contains(name_lower, T_has_) THEN V_True
       ELSE IF Contains(name_lower, T_list) \/ Contains(name_lower, T_items) THEN V_list
       ELSE IF Contains(name_lower, T_dict) \/ Contains(name_lower, T_map) THEN V_dict
       ELSE Quoted(T_value)

\* _infer_param_value
InferParamValue(param) ==
    IF ValueFromType(param) # None THEN ValueFromType(param)[1]
    ELSE ValueFromName(param)

\* line 383: "if param.default_value: continue"
SkipsNothing(param) == FALSE
SkippedInExample(param) == Truthy(param.default_value)

\* _generate_param_values, lines 380-388: the list `values`
RECURSIVE ParamValues(_)
ParamValues(parameters) ==
    IF parameters = <<>> THEN <<>>
    ELSE (IF SkippedInExample(Head(parameters)) THEN <<>>
          ELSE <<Head(parameters).name \o X_equals \o InferParamValue(Head(parameters))>>)
         \o ParamValues(Tail(parameters))

\* ", ".join(values)
RECURSIVE Join(_)
Join(values) ==
    IF values = <<>> THEN <<>>
    ELSE IF Len(values) = 1 THEN values[1]
    ELSE values[1] \o X_comma \o Join(Tail(values))

\* _generate_param_values
GenerateParamValues(parameters) == Join(ParamValues(parameters))

\* generate_example: the text returned
GenerateExample(func_info) ==
    IF func_info.parameters = <<>>
    THEN X_prompt \o func_info.name \o X_no_arguments
    ELSE IF func_info.is_async
    THEN X_prompt \o X_await \o func_info.name \o X_open
         \o GenerateParamValues(func_info.parameters) \o X_returns_result
    ELSE X_prompt \o X_result \o func_info.name \o X_open
         \o GenerateParamValues(func_info.parameters) \o X_print_result

(***************************************************************************)
(* DocstringBuilder (tools.py). A docstring is the sequence of its lines;  *)
(* a line keeps what was decided (item), the labels and texts it shows and *)
(* the number it shows. Blank lines and fixed wording are left out.        *)
(***************************************************************************)
T_get_ == <<"g","e","t","_">>
T_set_ == <<"s","e","t","_">>
T_create_ == <<"c","r","e","a","t","e","_">>
T_make_ == <<"m","a","k","e","_">>
T_calculate_ == <<"c","a","l","c","u","l","a","t","e","_">>
T_compute_ == <<"c","o","m","p","u","t","e","_">>
T_process_ == <<"p","r","o","c","e","s","s","_">>
T_validate_ == <<"v","a","l","i","d","a","t","e","_">>
T__ == <<"_">>
T_file == <<"f","i","l","e">>
T_path == <<"p","a","t","h">>
T_data == <<"d","a","t","a">>
T_config == <<"c","o","n","f","i","g">>
T_KeyError == <<"K","e","y","E","r","r","o","r">>
T_IndexError == <<"I","n","d","e","x","E","r","r","o","r">>
T_FileNotFoundError == <<"F","i","l","e","N","o","t","F","o","u","n","d","E","r","r","o","r">>

Line(item, labels, words, n) == [item |-> item, labels |-> labels, words |-> words, n |-> n]

\* _generate_smart_summary: which sentence is produced
SummaryForm(name, element_type, patterns) ==
    IF StartsWith(name, T_get_) THEN "Get"
    ELSE IF StartsWith(name, T_set_) THEN "Set"
    ELSE IF StartsWith(name, T_is_) \/ StartsWith(name, T_has_) THEN "Check if"
    ELSE IF StartsWith(name, T_create_) \/ StartsWith(name, T_make_) THEN "Create"
    ELSE IF StartsWith(name, T_calculate_) \/ StartsWith(name, T_compute_) THEN "Calculate"
    ELSE IF StartsWith(name, T_process_) THEN "Process"
    ELSE IF StartsWith(name, T_validate_) THEN "Validate"
    ELSE IF StartsWith(name, T__) THEN "Internal helper for"
    ELSE IF "factory" \in SeqToSet(patterns) THEN "Factory"
    ELSE IF "singleton" \in SeqToSet(patterns) THEN "Singleton"
    ELSE IF "builder" \in SeqToSet(patterns) THEN "Builder"
    ELSE IF element_type = "class" THEN "class implementation"
    ELSE "capitalized name"

Summary(name, element_type, patterns) ==
    Line("summary", <<SummaryForm(name, element_type, patterns), element_type>>, <<name>>, 0)

\* _generate_param_description
ParamDescription(param_name) ==
    IF Contains(param_name, T_file) \/ Contains(param_name, T_path) THEN "Path to"
    ELSE IF Contains(param_name, T_count) \/ Contains(param_name, T_num) THEN "Number of"
    ELSE IF Contains(param_name, T_name) THEN "Name of"
    ELSE IF Contains(param_name, T_id) THEN "Unique identifier for"
    ELSE IF Contains(param_name, T_flag) \/ StartsWith(param_name, T_is_)
            \/ StartsWith(param_name, T_has_) THEN "Whether to"
    ELSE IF Contains(param_name, T_data) THEN "Data for"
    ELSE IF Contains(param_name, T_config) THEN "Configuration for"
    ELSE "capitalized name"

\* _generate_return_description
ReturnDescription(func_name) ==
    IF Contains(func_name, T_get_) THEN "The requested data or object"
    ELSE IF Contains(func_name, T_is_) \/ Contains(func_name, T_has_)
         THEN "True if condition is met, False otherwise"
    ELSE IF Contains(func_name, T_create_) \/ Contains(func_name, T_make_)
         THEN "The newly created object"
    ELSE IF Contains(func_name, T_calculate_) \/ Contains(func_name, T_compute_)
         THEN "The calculated result"
    ELSE IF Contains(func_name, T_process_) THEN "The processed result"
    ELSE "Result of the operation"

\* _generate_exception_description
ExceptionDescription(exc_name) ==
    IF exc_name = T_ValueError THEN "If the provided value is invalid"
    ELSE IF exc_name = T_TypeError THEN "If the provided type is incorrect"
    ELSE IF exc_name = T_FileNotFoundError THEN "If the specified file does not exist"
    ELSE IF exc_name = T_KeyError THEN "If the specified key is not found"
    ELSE IF exc_name = T_IndexError THEN "If the index is out of range"
    ELSE "If an error occurs during"

\* the texts an Optional adds to a line when it is truthy
Shown(o) == IF Truthy(o) THEN <<o[1]>> ELSE <<>>

\* the pattern line of the Google dialect
PatternLines(item, patterns) ==
    IF patterns # <<>> THEN <<Line(item, patterns, <<>>, 0)>> ELSE <<>>

\* the complexity warning of the Google dialect
WarningLines(metrics) ==
    IF metrics.cyclomatic_complexity > 10
    THEN <<Line("warning", <<>>, <<>>, metrics.cyclomatic_complexity)>>
    ELSE <<>>

\* Google: "name (type): description Defaults to value."
GoogleParamLines(parameters) ==
    [k \in 1..Len(parameters) |->
        Line("param", <<ParamDescription(parameters[k].name)>>
                      \o (IF Truthy(parameters[k].type_hint) THEN <<"type">> ELSE <<>>)
                      \o (IF Truthy(parameters[k].default_value) THEN <<"default">> ELSE <<>>),
             <<parameters[k].name>> \o Shown(parameters[k].type_hint)
                                    \o Shown(parameters[k].default_value), 0)]

\* NumPy: "name : type" and a description line with the default
NumpyParamLines(parameters) == GoogleParamLines(parameters)

\* Sphinx: ":param name: description" and ":type name: type"; no default
SphinxParamLines(parameters) ==
    [k \in 1..Len(parameters) |->
        Line("param", <<ParamDescription(parameters[k].name)>>
                      \o (IF Truthy(parameters[k].type_hint) THEN <<"type">> ELSE <<>>),
             <<parameters[k].name>> \o Shown(parameters[k].type_hint), 0)]

ReturnLine(func_info) ==
    Line("returns", <<ReturnDescription(func_info.name)>>,
         IF Truthy(func_info.return_type) THEN <<func_info.return_type[1]>> ELSE <<T_Any>>, 0)

RaisesLines(raises) ==
    [k \in 1..Len(raises) |->
        Line("raises", <<ExceptionDescription(raises[k])>>, <<raises[k]>>, 0)]

_build_google_function(func_info, metrics, patterns) ==
    <<Summary(func_info.name, "function", patterns)>>
    \o PatternLines("pattern", patterns)
    \o WarningLines(metrics)
    \o GoogleParamLines(func_info.parameters)
    \o (IF Truthy(func_info.return_type) \/ metrics.num_return_statements > 0
        THEN <<ReturnLine(func_info)>> ELSE <<>>)
    \o RaisesLines(func_info.raises)
    \o (IF func_info.is_async THEN <<Line("async note", <<>>, <<>>, 0)>> ELSE <<>>)

_build_numpy_function(func_info, metrics, patterns) ==
    <<Summary(func_info.name, "function", patterns)>>
    \o NumpyParamLines(func_info.parameters)
    \o (IF Truthy(func_info.return_type) THEN <<ReturnLine(func_info)>> ELSE <<>>)
    \o RaisesLines(func_info.raises)

_build_sphinx_function(func_info, metrics, patterns) ==
    <<Summary(func_info.name, "function", patterns)>>
    \o SphinxParamLines(func_info.parameters)
    \o (IF Truthy(func_info.return_type) THEN <<ReturnLine(func_info)>> ELSE <<>>)
    \o RaisesLines(func_info.raises)

\* build_function_docstring: the dialect is the builder's own style field
BuildFunctionDocstring(builder, func_info, metrics, patterns) ==
    IF builder.style = "google" THEN _build_google_function(func_info, metrics, patterns)
    ELSE IF builder.style = "numpy" THEN _build_numpy_function(func_info, metrics, patterns)
    ELSE _build_sphinx_function(func_info, metrics, patterns)

\* class_info.attributes[:5]
FirstFive(attributes) == SubSeq(attributes, 1, Min(5, Len(attributes)))

AttributeLines(attributes) ==
    [k \in 1..Len(FirstFive(attributes)) |->
        Line("attribute", <<>>, <<attributes[k]>>, 0)]

_build_google_class(class_info, metrics, patterns) ==
    <<Summary(class_info.name, "class", patterns)>>
    \o PatternLines("design pattern", patterns)
    \o (IF class_info.bases # <<>>
        THEN <<Line("inherits", <<>>, class_info.bases, 0)>> ELSE <<>>)
    \o AttributeLines(class_info.attributes)

_build_numpy_class(class_info, metrics, patterns) ==
    <<Summary(class_info.name, "class", patterns)>>
    \o AttributeLines(class_info.attributes)

_build_sphinx_class(class_info, metrics, patterns) ==
    <<Summary(class_info.name, "class", patterns)>>

\* build_class_docstring
BuildClassDocstring(builder, class_info, metrics, patterns) ==
    IF builder.style = "google" THEN _build_google_class(class_info, metrics, patterns)
    ELSE IF builder.style = "numpy" THEN _build_numpy_class(class_info, metrics, patterns)
    ELSE _build_sphinx_class(class_info, metrics, patterns)

(***************************************************************************)
(* Scores and suggestions (agents.py), in half points                      *)
(***************************************************************************)
\* max(0.0, min(100.0, score))
ClampNoFloor(score) == Min(200, score)
Clamp(score) == Max(0, Min(200, score))

\* lines 427-428: the bonus for an existing docstring
DocstringBonusNever(func_info) == 0
DocstringBonus(func_info) == IF Truthy(func_info.existing_docstring) THEN 20 ELSE 0

\* _calculate_quality_score
CalculateQualityScore(metrics, func_info) ==
    Clamp(200
          - (IF metrics.cyclomatic_complexity > 10
             THEN (metrics.cyclomatic_complexity - 10) * 10 ELSE 0)
          - (IF metrics.lines_of_code > 50 THEN metrics.lines_of_code - 50 ELSE 0)
          - (IF metrics.num_parameters > 5
             THEN (metrics.num_parameters - 5) * 20 ELSE 0)
          + (IF metrics.has_type_hints THEN 30 ELSE -20)
          + DocstringBonus(func_info)
          + (IF func_info.decorators # <<>> THEN 10 ELSE 0))

\* _calculate_class_quality_score
CalculateClassQualityScore(metrics, class_info) ==
    LET num_methods == Len(class_info.methods)
    IN Clamp(200
             - (IF num_methods = 0 THEN 40
                ELSE IF num_methods > 20 THEN (num_methods - 20) * 4 ELSE 0)
             + (IF Truthy(class_info.existing_docstring) THEN 30 ELSE 0)
             + (IF 1 <= Len(class_info.bases) /\ Len(class_info.bases) <= 2 THEN 20
                ELSE IF Len(class_info.bases) > 2 THEN -20 ELSE 0)
             + (IF class_info.attributes # <<>> THEN 10 ELSE 0))

\* _calculate_confidence_score
CalculateConfidenceScoreHarsh(info, metrics, patterns) ==
    Clamp(140 - (IF metrics.cyclomatic_complexity > 15 THEN 30 ELSE 0))
CalculateConfidenceScore(info, metrics, patterns) ==
    Clamp(140
          + (IF metrics.has_type_hints THEN 30 ELSE 0)
          + (IF patterns # <<>> THEN Min(10, Len(patterns) * 3) * 2 ELSE 0)
          - (IF metrics.cyclomatic_complexity > 15 THEN 20 ELSE 0)
          + (IF Truthy(info.existing_docstring) THEN 20 ELSE 0))

Suggestion(category, severity) == [category |-> category, severity |-> severity]

\* _generate_suggestions
GenerateSuggestions(func_info, metrics, patterns) ==
    (IF ~metrics.has_type_hints THEN <<Suggestion("type_hints", "warning")>> ELSE <<>>)
    \o (IF metrics.cyclomatic_complexity > 10
        THEN <<Suggestion("complexity", "warning")>> ELSE <<>>)
    \o (IF metrics.num_parameters > 5 THEN <<Suggestion("parameters", "info")>> ELSE <<>>)
    \o (IF ~Truthy(func_info.existing_docstring)
        THEN <<Suggestion("documentation", "error")>> ELSE <<>>)

\* _generate_class_suggestions
GenerateClassSuggestions(class_info, metrics, patterns) ==
    (IF ~Truthy(class_info.existing_docstring)
     THEN <<Suggestion("documentation", "error")>> ELSE <<>>)
    \o (IF Len(class_info.methods) = 0 THEN <<Suggestion("design", "warning")>> ELSE <<>>)
    \o (IF Len(class_info.bases) > 3 THEN <<Suggestion("design", "warning")>> ELSE <<>>)

(***************************************************************************)
(* analyze_class, _extract_class_info and the processing of one element    *)
(***************************************************************************)
\* the FunctionDef / AsyncFunctionDef statements directly in a class body
MethodsOf(t, i) == SelectSeq(Children(t, i), LAMBDA n : t[n].kind \in FunctionKinds)

\* analyze_class, lines 142-146: a new analyzer visits each method
RECURSIVE TotalComplexityFromZero(_, _)
TotalComplexityFromZero(t, methods) ==
    IF methods = <<>> THEN 0
    ELSE Visit(t, Head(methods), [NewComplexityAnalyzer EXCEPT !.complexity = 0]).complexity
         + TotalComplexityFromZero(t, Tail(methods))

RECURSIVE TotalComplexity(_, _)
TotalComplexity(t, methods) ==
    IF methods = <<>> THEN 0
    ELSE Visit(t, Head(methods), NewComplexityAnalyzer).complexity
         + TotalComplexity(t, Tail(methods))

\* max(0, 100 - avg_complexity * 2 - loc * 0.3), in tenths
ClassMaintainability(avg_complexity, loc) == Max(0, 1000 - avg_complexity * 20 - loc * 3)

\* analyze_class: the CodeMetrics returned
AnalyzeClass(t, i) ==
    LET loc == t[i].end_lineno - t[i].lineno + 1
        methods == MethodsOf(t, i)
        avg_complexity == IF methods # <<>>
                          THEN TotalComplexity(t, methods) \div Len(methods) ELSE 1
    IN [cyclomatic_complexity |-> avg_complexity,
        lines_of_code |-> loc,
        num_parameters |-> Len(methods),
        num_return_statements |-> 0,
        has_type_hints |-> FALSE,
        quality_score |-> 0,
        maintainability_index |-> ClassMaintainability(avg_complexity, loc)]

\* lines 372-380: the attribute names one statement of the class body adds
AttributesOf(n) ==
    IF n.kind = "AnnAssign"
    THEN (IF n.targets[1].cls = "Name" THEN <<n.targets[1].id>> ELSE <<>>)
    ELSE IF n.kind = "Assign"
    THEN LET names == SelectSeq(n.targets, LAMBDA target : target.cls = "Name")
         IN [k \in 1..Len(names) |-> names[k].id]
    ELSE <<>>

RECURSIVE AttributesFrom(_, _)
AttributesFrom(t, body) ==
    IF body = <<>> THEN <<>>
    ELSE AttributesOf(t[Head(body)]) \o AttributesFrom(t, Tail(body))

\* _extract_class_info
ExtractClassInfo(t, i) ==
    LET node == t[i]
        methods == MethodsOf(t, i)
    IN [name |-> node.name,
        bases |-> node.bases,
        methods |-> [k \in 1..Len(methods) |-> t[methods[k]].name],
        attributes |-> AttributesFrom(t, Children(t, i)),
        decorators |-> [k \in 1..Len(node.decorator_list) |-> node.decorator_list[k].text],
        existing_docstring |-> node.docstring]

\* _is_method: the function is in the subtree of some class of the tree
_is_method(t, i) == \E c \in 1..Len(t) : t[c].kind = "ClassDef" /\ i \in Subtree(t, c)

\* the agent before and while it processes: the fields an element can change
AgentOf(s, a) == [stats |-> s, complexity_analyzer |-> a]

\* line 212: an example is added for a complex or parameter-heavy function
WantsExampleByMetrics(metrics, func_info) ==
    metrics.cyclomatic_complexity > 5 \/ metrics.num_parameters > 3
WantsExample(metrics, func_info) ==
    metrics.cyclomatic_complexity > 5 \/ Len(func_info.parameters) > 3

\* _process_function, lines 198-233: the DocstringResult returned once
\* analyze_function has given `analyzed`
FunctionResultFrom(t, i, analyzed, cfg, builder, seed) ==
    LET func_info == ExtractFunctionInfo(t, i)
        metrics == [analyzed EXCEPT !.quality_score = CalculateQualityScore(analyzed, func_info)]
        patterns == DetectFunctionPatterns(t, i, seed)
        docstring == BuildFunctionDocstring(builder, func_info, metrics, patterns)
    IN [element_type |-> IF func_info.is_method THEN "method" ELSE "function",
        element_name |-> func_info.name,
        line_number |-> t[i].lineno,
        generated_docstring |->
            docstring \o (IF WantsExample(metrics, func_info)
                          THEN <<Line("example", <<>>, <<GenerateExample(func_info)>>, 0)>>
                          ELSE <<>>),
        style |-> cfg.docstring_style,
        quality_score |-> metrics.quality_score,
        metrics |-> metrics,
        suggestions |-> GenerateSuggestions(func_info, metrics, patterns),
        has_existing_docstring |-> func_info.existing_docstring # None,
        confidence_score |-> CalculateConfidenceScore(func_info, metrics, patterns)]

\* _process_function: the DocstringResult returned
FunctionResult(t, i, agent, cfg, builder, seed) ==
    FunctionResultFrom(t, i, AnalyzeFunction(t, i, agent.complexity_analyzer),
                       cfg, builder, seed)

\* lines 212-216: the counters once analyze_function has given `analyzed`
StatsForgotten(t, i, analyzed, s) ==
    [total_analyzed |-> 0, total_functions |-> 0, total_classes |-> 0,
     patterns_detected |-> 0, examples_generated |-> 0]
StatsAfterFunction(t, i, analyzed, s) ==
    IF WantsExample(analyzed, ExtractFunctionInfo(t, i))
    THEN [s EXCEPT !.examples_generated = @ + 1] ELSE s

\* _process_function: the agent after the call
AgentAfterFunction(t, i, agent) ==
    [stats |-> StatsAfterFunction(t, i, AnalyzeFunction(t, i, agent.complexity_analyzer),
                                  agent.stats),
     complexity_analyzer |-> AnalyzerAfterFunction(t, i, agent.complexity_analyzer)]

\* _process_class: the DocstringResult returned
ClassResult(t, i, agent, cfg, builder, seed) ==
    LET class_info == ExtractClassInfo(t, i)
        analyzed == AnalyzeClass(t, i)
        metrics == [analyzed EXCEPT
                       !.quality_score = CalculateClassQualityScore(analyzed, class_info)]
        patterns == DetectClassPatterns(t, i, seed)
    IN [element_type |-> "class",
        element_name |-> class_info.name,
        line_number |-> t[i].lineno,
        generated_docstring |-> BuildClassDocstring(builder, class_info, metrics, patterns),
        style |-> cfg.docstring_style,
        quality_score |-> metrics.quality_score,
        metrics |-> metrics,
        suggestions |-> GenerateClassSuggestions(class_info, metrics, patterns),
        has_existing_docstring |-> class_info.existing_docstring # None,
        confidence_score |-> CalculateConfidenceScore(class_info, metrics, patterns)]

\* _process_class: the agent after the call
AgentAfterClass(t, i, agent, seed) ==
    [agent EXCEPT !.stats.patterns_detected = @ + Len(DetectClassPatterns(t, i, seed))]

(***************************************************************************)
(* process_code and process_file (agents.py). A source text is given by    *)
(* whether it is valid Python and by the definitions written in it; for an *)
(* invalid text these are the definitions written before the error.        *)
(***************************************************************************)
Source(valid, tree) == [valid |-> valid, tree |-> tree]

\* ast.parse(source_code): the tree, None when SyntaxError is raised
ParseLeniently(source) == Some(source.tree)
Parse(source) == IF source.valid THEN Some(source.tree) ELSE None

\* lines 143-156: the loop over ast.walk(tree); `done` holds the agent and
\* the results so far
RECURSIVE ProcessNodes(_, _, _, _, _, _)
ProcessNodes(t, todo, done, cfg, builder, seed) ==
    IF todo = <<>> THEN done
    ELSE LET i == Head(todo)
             step ==
                 IF KindOf(t, i) = "ClassDef"
                 THEN [agent |-> [AgentAfterClass(t, i, done.agent, seed)
                                     EXCEPT !.stats.total_classes = @ + 1],
                       results |-> Append(done.results,
                           ClassResult(t, i, done.agent, cfg, builder, seed))]
                 ELSE IF KindOf(t, i) \in FunctionKinds /\ ~_is_method(t, i)
                 THEN [agent |-> [AgentAfterFunction(t, i, done.agent)
                                     EXCEPT !.stats.total_functions = @ + 1],
                       results |-> Append(done.results,
                           FunctionResult(t, i, done.agent, cfg, builder, seed))]
                 ELSE done
         IN ProcessNodes(t, Tail(todo), step, cfg, builder, seed)

\* what a call gives back: the exception raised ("" when none), the results
\* returned, and the agent after the call
Outcome(raised, results, agent) == [raised |-> raised, results |-> results, agent |-> agent]

\* line 158: self.stats['total_analyzed'] += len(results)
CountCall(agent, results) == [agent EXCEPT !.stats.total_analyzed = @ + 1]
CountResults(agent, results) == [agent EXCEPT !.stats.total_analyzed = @ + Len(results)]

\* process_code(source_code)
ProcessCode(source, agent, cfg, builder, seed) ==
    IF Parse(source) = None THEN Outcome("SyntaxError", <<>>, agent)
    ELSE LET tree == Parse(source)[1]
             done == ProcessNodes(tree, Walk(tree, 0),
                                  [agent |-> agent, results |-> <<>>], cfg, builder, seed)
         IN Outcome("", done.results, CountResults(done.agent, done.results))

\* a path: whether a file is there, and its text
File(exists, source) == [exists |-> exists, source |-> source]

\* process_file(file_path)
ProcessFile(file, agent, cfg, builder, seed) ==
    IF ~file.exists THEN Outcome("FileNotFoundError", <<>>, agent)
    ELSE ProcessCode(file.source, agent, cfg, builder, seed)

(***************************************************************************)
(* Parsed trees the operations are applied to                              *)
(***************************************************************************)
\* Kinds whose body holds statements
BlockKinds == {"FunctionDef", "AsyncFunctionDef", "ClassDef", "If", "For", "While",
               "AsyncFor", "With", "AsyncWith", "Try", "ExceptHandler"}
StatementKinds == {"FunctionDef", "AsyncFunctionDef", "ClassDef", "If", "For",
                   "While", "AsyncFor", "With", "AsyncWith", "Try", "Return",
                   "Raise", "Assign", "AnnAssign", "Pass"}
ExpressionKinds == {"BoolOp", "IfExp", "Call", "Yield"}

\* what the grammar allows below a node of kind pk
MayHold(pk, k) ==
    IF k = "ExceptHandler" THEN pk = "Try"
    ELSE IF k \in StatementKinds THEN pk \in BlockKinds
    ELSE pk \notin {"Pass", "Try", "FunctionDef", "AsyncFunctionDef", "ClassDef"}

\* The trees of `smaller` with one more node, written after the others in
\* the source: its parent is the last node or one of the last node's
\* ancestors.
Extended(smaller, shapes, size) ==
    {Append(x[1], [x[2] EXCEPT !.parent = x[3]]) :
        x \in {y \in smaller \X shapes \X (1..size) :
                  /\ y[3] \in PathToRoot(y[1], Len(y[1]))
                  /\ MayHold(y[1][y[3]].kind, y[2].kind)}}

\* the trees grown from the trees of `roots` by at most n nodes
RECURSIVE Grow(_, _, _)
Grow(roots, shapes, n) ==
    IF n = 0 THEN roots
    ELSE LET smaller == Grow(roots, shapes, n - 1)
         IN smaller \cup Extended(smaller, shapes, n)

\* one line per node, in source order; the root spans `pad` more lines
WithLines(t, pad) ==
    [i \in 1..Len(t) |->
        [t[i] EXCEPT !.lineno = i,
                     !.end_lineno = (CHOOSE m \in Subtree(t, i) :
                                        \A j \in Subtree(t, i) : j <= m)
                                    + (IF i = 1 THEN pad ELSE 0)]]

T_f == <<"f">>
T_a == <<"a">>
T_b == <<"b">>

\* def f(a, b): ...
PlainFunction == [Node("FunctionDef", 0) EXCEPT !.name = T_f,
                     !.args = <<Arg(T_a, None), Arg(T_b, None)>>]

BoolOp(k) == [Node("BoolOp", 0) EXCEPT !.values = k]

ControlShapes ==
    {Node(k, 0) : k \in {"If", "For", "While", "AsyncFor", "With", "AsyncWith",
                         "Try", "ExceptHandler", "Return", "FunctionDef"}}
    \cup {BoolOp(2), BoolOp(3)}

\* functions with up to MaxNodes nodes of control flow below them
ControlTrees ==
    {WithLines(t, 0) : t \in Grow({<<PlainFunction>>}, ControlShapes, MaxNodes)}

\* def f(a, b): return a and ... (MaxOperands operands), inside a loop
BusyFunction ==
    WithLines(<<PlainFunction,
                [Node("While", 0) EXCEPT !.parent = 1],
                [Node("Return", 0) EXCEPT !.parent = 2],
                [BoolOp(MaxOperands) EXCEPT !.parent = 3]>>, 0)

(***************************************************************************)
(* The state after construction (DocstringAgent.__init__)                  *)
(***************************************************************************)
NoStats == [total_analyzed |-> 0, total_functions |-> 0, total_classes |-> 0,
            patterns_detected |-> 0, examples_generated |-> 0]

Styles == {"google", "numpy", "sphinx"}

NoRet == [none |-> TRUE]

Constructed ==
    /\ stats = NoStats
    /\ complexity_analyzer = NewComplexityAnalyzer
    /\ config = [docstring_style |-> "google"]
    /\ docstring_builder = [style |-> "google"]
    /\ arg = NoRet
    /\ ret = NoRet
    /\ op = "init"
    /\ calls = 0
    /\ ref = NoRet

(***************************************************************************)
(* SpecComplexity: calls of ComplexityAnalyzer.analyze_function on one     *)
(* analyzer, on the function under study and on other functions            *)
(***************************************************************************)
InitComplexity ==
    /\ Constructed
    /\ hash_seed = 0
    /\ unit \in ControlTrees

\* complexity_analyzer.analyze_function(node), node the root of t;
\* ref keeps the analyzer as the call found it
AnalyzeFunctionCall(t) ==
    /\ ret' = AnalyzeFunction(t, 1, complexity_analyzer)
    /\ complexity_analyzer' = AnalyzerAfterFunction(t, 1, complexity_analyzer)
    /\ ref' = complexity_analyzer
    /\ op' = "analyze_function"
    /\ arg' = t
    /\ UNCHANGED <<stats, config, docstring_builder, hash_seed, unit, calls>>

NextComplexity == \E t \in {unit, BusyFunction} : AnalyzeFunctionCall(t)

SpecComplexity == InitComplexity /\ [][NextComplexity]_vars

\* The number of nodes of the given kinds in the subtree of node i
CountKinds(t, i, kinds) == Cardinality({j \in Subtree(t, i) : t[j].kind \in kinds})

ExtraOperands(n) == IF n.kind = "BoolOp" THEN n.values - 1 ELSE 0

RECURSIVE SumExtraOperands(_, _)
SumExtraOperands(S, t) ==
    IF S = {} THEN 0
    ELSE LET j == CHOOSE x \in S : TRUE
         IN ExtraOperands(t[j]) + SumExtraOperands(S \ {j}, t)

\* the complexity as claim C6 states it
ClaimedComplexity(t, i) ==
    1 + CountKinds(t, i, {"If"})
      + CountKinds(t, i, {"For", "While", "AsyncFor"})
      + CountKinds(t, i, {"ExceptHandler"})
      + CountKinds(t, i, {"With", "AsyncWith"})
      + SumExtraOperands(Subtree(t, i), t)

\* C2: whatever earlier calls left in the analyzer, the cyclomatic complexity
\* returned by analyze_function is at least 1.
C2_ComplexityAtLeastOne ==
    op = "analyze_function" => ret.cyclomatic_complexity >= 1

\* an earlier call left the counter above 1 and this call returned 1
C2_Witness ==
    /\ op = "analyze_function"
    /\ ref.complexity > 1
    /\ ret.cyclomatic_complexity = 1

\* C6: the complexity returned is 1 + one per conditional branch + one per
\* loop of any kind + one per exception handler + one per resource-scope
\* block + (k - 1) per boolean expression of k operands, over the subtree.
C6_ComplexityFormula ==
    op = "analyze_function" =>
        ret.cyclomatic_complexity = ClaimedComplexity(arg, 1)

(***************************************************************************)
(* SpecExtract: _extract_function_info on one function                     *)
(***************************************************************************)
T_c == <<"c">>
T_d == <<"d">>
T_10 == <<"1","0">>
T_20 == <<"2","0">>
T_30 == <<"3","0">>
T_40 == <<"4","0">>
T_50 == <<"5","0">>
DefaultTexts == <<T_10, T_20, T_30, T_40, T_50>>

ArgNames == {T_self, T_cls, T_a, T_b, T_c, T_d}

\* the sequences of at most n distinct parameter names
RECURSIVE NameLists(_)
NameLists(n) ==
    IF n = 0 THEN {<<>>}
    ELSE LET shorter == NameLists(n - 1)
         IN shorter \cup {Append(l, x) : <<l, x>> \in
                            {y \in shorter \X ArgNames : y[2] \notin SeqToSet(y[1])}}

\* def f(<names>) with the last k parameters given the defaults 10, 20, ...
\* and the first p parameters positional-only
Declared(names, p, k) ==
    [Node("FunctionDef", 0) EXCEPT
        !.name = T_f,
        !.posonlyargs = [j \in 1..p |-> Arg(names[j], None)],
        !.args = [j \in 1..(Len(names) - p) |-> Arg(names[p + j], None)],
        !.defaults = [j \in 1..k |-> DefaultTexts[j]]]

DeclaredFunctions ==
    {<<Declared(names, p, k)>> :
        <<names, p, k>> \in {x \in NameLists(MaxArgs) \X (0..1) \X (0..MaxArgs) :
                               x[2] <= Len(x[1]) /\ x[3] <= Len(x[1])}}

Raise(exc) == [Node("Raise", 0) EXCEPT !.exc = exc]

T_ValueErrorCall == T_ValueError \o <<"(", "'", "x", "'", ")">>
T_TypeErrorCall == T_TypeError \o <<"(", ")">>

RaiseShapes ==
    {Node(k, 0) : k \in {"If", "Try", "ExceptHandler", "FunctionDef"}}
    \cup {Raise(None), Raise(Some(T_ValueErrorCall)), Raise(Some(T_ValueError)),
          Raise(Some(T_TypeErrorCall))}

RaisingFunctions ==
    {WithLines(t, 0) : t \in Grow({<<PlainFunction>>}, RaiseShapes, MaxNodes)}

\* def f(a, b):
\*     try:
\*         if a: raise ValueError('x')
\*     except:
\*         raise
ReraisingFunction ==
    WithLines(<<PlainFunction,
                [Node("Try", 0) EXCEPT !.parent = 1],
                [Node("If", 0) EXCEPT !.parent = 2],
                [Raise(Some(T_ValueErrorCall)) EXCEPT !.parent = 3],
                [Node("ExceptHandler", 0) EXCEPT !.parent = 2],
                [Raise(None) EXCEPT !.parent = 5]>>, 0)

InitExtract ==
    /\ Constructed
    /\ hash_seed = 0
    /\ unit \in DeclaredFunctions \cup RaisingFunctions \cup {ReraisingFunction}

\* self._extract_function_info(node), node the root of the unit
ExtractFunctionInfoCall ==
    /\ op = "init"
    /\ ret' = ExtractFunctionInfo(unit, 1)
    /\ arg' = unit
    /\ op' = "_extract_function_info"
    /\ UNCHANGED <<stats, complexity_analyzer, config, docstring_builder,
                   hash_seed, unit, calls, ref>>

NextExtract == ExtractFunctionInfoCall

SpecExtract == InitExtract /\ [][NextExtract]_vars

\* the positional parameters as declared, positional-only ones first
DeclaredParameters(node) == node.posonlyargs \o node.args

\* the default parameter j was declared with: the K defaults belong to the
\* last K declared positional parameters
DeclaredDefault(node, j) ==
    LET d == j - (Len(DeclaredParameters(node)) - Len(node.defaults))
    IN IF d >= 1 THEN Some(node.defaults[d]) ELSE None

\* C4: each recorded parameter carries exactly the default it was declared
\* with, and none if it was declared without one.
C4_DefaultsAsDeclared ==
    op = "_extract_function_info" =>
        \A m \in 1..Len(ret.parameters) :
            \A j \in 1..Len(DeclaredParameters(arg[1])) :
                DeclaredParameters(arg[1])[j].arg = ret.parameters[m].name =>
                    ret.parameters[m].default_value = DeclaredDefault(arg[1], j)

\* the Raise nodes with an expression in the subtree of the function
ExplicitRaises(t) == {j \in Subtree(t, 1) : t[j].kind = "Raise" /\ t[j].exc # None}

RaisedName(t, j) == BeforeParen(t[j].exc[1])

\* the place in ast.walk at which a name is first met
FirstMet(t, name) ==
    CHOOSE p \in 1..Len(Walk(t, 1)) :
        /\ Walk(t, 1)[p] \in ExplicitRaises(t)
        /\ RaisedName(t, Walk(t, 1)[p]) = name
        /\ \A q \in 1..(p - 1) :
               ~(Walk(t, 1)[q] \in ExplicitRaises(t)
                 /\ RaisedName(t, Walk(t, 1)[q]) = name)

\* C5: the raised-error list holds exactly the names raised with an explicit
\* expression anywhere in the subtree, each once, in the order in which the
\* walk of the subtree (ast.walk, breadth first) first meets them; a bare
\* raise adds nothing.
C5_RaisesCollected ==
    op = "_extract_function_info" =>
        /\ SeqToSet(ret.raises) = {RaisedName(arg, j) : j \in ExplicitRaises(arg)}
        /\ \A x, y \in 1..Len(ret.raises) :
               x < y => /\ ret.raises[x] # ret.raises[y]
                        /\ FirstMet(arg, ret.raises[x]) < FirstMet(arg, ret.raises[y])

\* the function raises ValueError('x') and re-raises bare: only ValueError
C5_Witness ==
    /\ op = "_extract_function_info"
    /\ arg = ReraisingFunction
    /\ ret.raises = <<T_ValueError>>

(***************************************************************************)
(* SpecPattern: detect_class_patterns on one class                         *)
(***************************************************************************)
T_UserFactory == <<"U","s","e","r","F","a","c","t","o","r","y">>
T_Base == <<"B","a","s","e">>
T_S == <<"S">>
T_create_user == <<"c","r","e","a","t","e","_","u","s","e","r">>
T_Create == <<"C","r","e","a","t","e">>
T_run == <<"r","u","n">>
T_INSTANCE == <<"I","N","S","T","A","N","C","E">>
T_x == <<"x">>

Class(name) == [Node("ClassDef", 0) EXCEPT !.name = name]

Method(kind, name) ==
    [Node(kind, 0) EXCEPT !.name = name, !.args = <<Arg(T_self, None)>>]

\* target = value
Assign(target) == [Node("Assign", 0) EXCEPT !.targets = <<target>>]

\* target: annotation = value
AnnAssign(target) == [Node("AnnAssign", 0) EXCEPT !.targets = <<target>>]

ClassRoots ==
    {<<Class(T_UserFactory)>>, <<Class(T_Base)>>,
     <<[Class(T_S) EXCEPT !.bases = <<T_ABC>>]>>,
     <<[Class(T_S) EXCEPT !.decorator_list = <<Decorator("Name", T_dataclass, T_dataclass)>>]>>}

ClassShapes ==
    {Method("FunctionDef", T___new__), Method("FunctionDef", T_create_user),
     Method("FunctionDef", T_Create), Method("FunctionDef", T_run),
     Method("AsyncFunctionDef", T_create_user),
     Assign(Target("Name", T__instance)), Assign(Target("Name", T_INSTANCE)),
     Assign(Target("Name", T_x)), Assign(Target("Attribute", T__instance)),
     AnnAssign(Target("Name", T__instance)), Node("If", 0)}

ClassTrees == {WithLines(t, 0) : t \in Grow(ClassRoots, ClassShapes, MaxNodes - 1)}

InitPattern ==
    /\ Constructed
    /\ hash_seed \in 0..MaxSeed
    /\ unit \in ClassTrees

\* pattern_detector.detect_class_patterns(node, source_code)
DetectClassPatternsCall ==
    /\ op = "init"
    /\ ret' = DetectClassPatterns(unit, 1, hash_seed)
    /\ arg' = unit
    /\ op' = "detect_class_patterns"
    /\ UNCHANGED <<stats, complexity_analyzer, config, docstring_builder,
                   hash_seed, unit, calls, ref>>

NextPattern == DetectClassPatternsCall

SpecPattern == InitPattern /\ [][NextPattern]_vars

\* a method declared by the class, synchronous or not
DeclaredMethods(t) == {n \in Body(t, 1) : t[n].kind \in FunctionKinds}

\* the factory rule of claim C7 (names compared without regard to case, as
\* the code does)
FactoryRule(t) ==
    \/ EndsWith(t[1].name, T_Factory)
    \/ \E n \in DeclaredMethods(t) : Contains(Lower(t[n].name), T_create)

\* the singleton rule of claim C7: a __new__ override, or an assignment,
\* annotated or not, to a class attribute whose name contains "instance"
SingletonRule(t) ==
    \/ \E n \in DeclaredMethods(t) : t[n].name = T___new__
    \/ \E n \in Body(t, 1) :
           /\ t[n].kind \in {"Assign", "AnnAssign"}
           /\ \E k \in 1..Len(t[n].targets) :
                  /\ t[n].targets[k].cls = "Name"
                  /\ Contains(Lower(t[n].targets[k].id), T_instance)

\* C7: "factory" is among the labels of every class the factory rule
\* matches and "singleton" among those of every class the singleton rule
\* matches; the labels hold no duplicate and no label whose rule fails.
C7_ClassPatterns ==
    op = "detect_class_patterns" =>
        /\ "factory" \in SeqToSet(ret) <=> FactoryRule(arg)
        /\ "singleton" \in SeqToSet(ret) <=> SingletonRule(arg)
        /\ \A x, y \in 1..Len(ret) : x # y => ret[x] # ret[y]

(***************************************************************************)
(* SpecExample: generate_example on the description of one function        *)
(***************************************************************************)
T_report == <<"r","e","p","o","r","t">>
T_active == <<"a","c","t","i","v","e">>
T_user_id == <<"u","s","e","r","_","i","d">>
T_is_ok == <<"i","s","_","o","k">>
T_Point == <<"P","o","i","n","t">>
T_Listing == <<"L","i","s","t","i","n","g">>

\* a declared parameter: its name, its annotation, whether it has a default
ParameterChoices ==
    {<<T_title, None>>, <<T_count, None>>, <<T_active, None>>, <<T_user_id, None>>,
     <<T_is_ok, None>>, <<T_items, None>>, <<T_name, Some(T_Any)>>,
     <<T_x, Some(T_int)>>, <<T_text, Some(T_Point)>>, <<T_a, Some(T_str)>>,
     <<T_b, Some(T_Listing)>>, <<T_self, None>>}

\* the sequences of at most n parameters with distinct names
RECURSIVE ParameterLists(_)
ParameterLists(n) ==
    IF n = 0 THEN {<<>>}
    ELSE LET shorter == ParameterLists(n - 1)
         IN shorter \cup
            {Append(y[1], y[2]) : y \in
                {z \in shorter \X ParameterChoices :
                    \A k \in 1..Len(z[1]) : z[1][k][1] # z[2][1]}}

\* def report(<parameters>), the last k of them with defaults
Reported(kind, parameters, k) ==
    [Node(kind, 0) EXCEPT
        !.name = T_report,
        !.args = [j \in 1..Len(parameters) |-> Arg(parameters[j][1], parameters[j][2])],
        !.defaults = [j \in 1..k |-> DefaultTexts[j]]]

ReportedFunctions ==
    {<<Reported(x[1], x[2], x[3])>> :
        x \in {y \in FunctionKinds \X ParameterLists(MaxExampleArgs) \X (0..MaxExampleArgs) :
                 y[3] <= Len(y[2])}}

\* def report(title, count=1, active=True)
ReportFunction ==
    <<[Reported("FunctionDef",
                <<<<T_title, None>>, <<T_count, None>>, <<T_active, None>>>>, 0)
          EXCEPT !.defaults = <<V_1, V_True>>]>>

InitExample ==
    /\ Constructed
    /\ hash_seed = 0
    /\ unit \in ReportedFunctions \cup {ReportFunction}

\* example_generator.generate_example(func_info, patterns) on the
\* description extracted from the unit
GenerateExampleCall ==
    /\ op = "init"
    /\ arg' = ExtractFunctionInfo(unit, 1)
    /\ ret' = GenerateExample(ExtractFunctionInfo(unit, 1))
    /\ op' = "generate_example"
    /\ UNCHANGED <<stats, complexity_analyzer, config, docstring_builder,
                   hash_seed, unit, calls, ref>>

NextExample == GenerateExampleCall

SpecExample == InitExample /\ [][NextExample]_vars

\* the value claim C8 gives a parameter: from the declared type first,
\* otherwise from the name-keyword cascade
ClaimedValue(param) ==
    IF param.type_hint # None /\ ValueFromType(param) # None
    THEN ValueFromType(param)[1]
    ELSE ValueFromName(param)

\* the keyword arguments claim C8 gives: one per parameter without default
RECURSIVE ClaimedArguments(_)
ClaimedArguments(parameters) ==
    IF parameters = <<>> THEN <<>>
    ELSE (IF Head(parameters).default_value # None THEN <<>>
          ELSE <<Head(parameters).name \o X_equals \o ClaimedValue(Head(parameters))>>)
         \o ClaimedArguments(Tail(parameters))

\* the text of an example that passes the given arguments
ExampleWith(func_info, arguments) ==
    X_prompt \o (IF func_info.is_async THEN X_await ELSE X_result)
    \o func_info.name \o X_open \o Join(arguments)
    \o (IF func_info.is_async THEN X_returns_result ELSE X_print_result)

ExampleSkipsDefaults ==
    (op = "generate_example" /\ arg.parameters # <<>>) =>
        ret = ExampleWith(arg, ClaimedArguments(arg.parameters))

\* C8 as stated: parameters with a default are skipped, every other one is
\* passed by keyword with the value from its type or else its name, and for
\* def report(title, count=1, active=True) the example passes only
\* title="title".
C8_ExampleAsStated ==
    /\ ExampleSkipsDefaults
    /\ (op = "generate_example" /\ unit = ReportFunction) =>
           ret = ExampleWith(arg, <<T_title \o X_equals \o Quoted(T_title)>>)

\* C8 as amended: the same, and for def report(title, count=1, active=True)
\* the example passes only title="value", "title" holding no keyword of the
\* name cascade.
C8_ExampleSynthesis ==
    /\ ExampleSkipsDefaults
    /\ (op = "generate_example" /\ unit = ReportFunction) =>
           ret = ExampleWith(arg, <<T_title \o X_equals \o Quoted(T_value)>>)

\* the example of def report(title, count=1, active=True) was synthesized
C8_Witness ==
    /\ op = "generate_example"
    /\ unit = ReportFunction
    /\ Len(arg.parameters) = 3
    /\ arg.parameters[2].default_value # None

(***************************************************************************)
(* SpecElement: _process_function and _process_class on one agent, on      *)
(* elements whose size, complexity and counts go far beyond the thresholds *)
(***************************************************************************)
Alphabet == <<"a","b","c","d","e","f","g","h","i","j","k","l","m",
              "n","o","p","q","r","s","t","u","v","w","x","y","z">>

\* n parameters, all annotated or none
ManyArgs(n, annotation) == [k \in 1..n |-> Arg(<<Alphabet[k]>>, annotation)]

Docstrings == {None, Some(<<>>), Some(T_text)}

PropertyDecorator == Decorator("Name", T_property, T_property)
DataclassDecorator == Decorator("Name", T_dataclass, T_dataclass)

\* def/async def name(params): docstring; while ...: return a and b and ...
ScoredFunction(kind, name, n, annotation, docstring, decorators, operands, pad) ==
    WithLines(<<[Node(kind, 0) EXCEPT !.name = name, !.args = ManyArgs(n, annotation),
                                     !.docstring = docstring,
                                     !.decorator_list = decorators],
                [Node("While", 0) EXCEPT !.parent = 1],
                [Node("Return", 0) EXCEPT !.parent = 2],
                [BoolOp(operands) EXCEPT !.parent = 3]>>, pad)

ScoredFunctions ==
    {ScoredFunction(x[1], x[2], x[3], x[4], x[5], x[6], x[7], x[8]) :
        x \in FunctionKinds \X {T_f, T_create_user} \X {0, 2, 6, MaxParams}
              \X {None, Some(T_int)} \X Docstrings \X {<<>>, <<PropertyDecorator>>}
              \X {2, 12, 17, MaxOperands} \X {0, 60, MaxPad}}

\* class name(bases): docstring; x = ...; def run(self): ... (n methods)
ScoredClass(name, bases, docstring, decorators, attributes, n) ==
    WithLines(<<[Class(name) EXCEPT !.bases = bases, !.docstring = docstring,
                                    !.decorator_list = decorators]>>
              \o [k \in 1..attributes |->
                     [Assign(Target("Name", T_x)) EXCEPT !.parent = 1]]
              \o [k \in 1..n |-> [Method("FunctionDef", T_run) EXCEPT !.parent = 1]], 0)

ScoredClasses ==
    {ScoredClass(x[1], x[2], x[3], x[4], x[5], x[6]) :
        x \in {T_S, T_UserFactory}
              \X {<<>>, <<T_Base>>, <<T_Base, T_ABC, T_S>>, <<T_Base, T_ABC, T_S, T_x>>}
              \X Docstrings \X {<<>>, <<DataclassDecorator>>} \X {0, 1}
              \X {0, 1, 21, MaxMethods}}

\* def/async def f(self, a, ...): while ...: return a and b and ...
\* around the thresholds of the example: 2 to 4 parameters after self,
\* complexity 3, 5, 6 and 13
BoundFunctions ==
    {[ScoredFunction(x[1], T_f, 0, None, None, <<>>, x[2], 0) EXCEPT
         ![1].args = <<Arg(T_self, None)>> \o ManyArgs(x[3], None)] :
        x \in FunctionKinds \X {2, 4, 5, 12} \X {2, 3, 4}}

\* def run(self): return a and b and ... (c operands; c = 1: an empty body);
\* a negative c puts the method of complexity -c under an `if` of the class
\* body. The lines follow the `last` lines written so far.
MethodLines(c, last) ==
    IF c = 1 THEN <<[Method("FunctionDef", T_run) EXCEPT !.parent = 1]>>
    ELSE IF c > 1
    THEN <<[Method("FunctionDef", T_run) EXCEPT !.parent = 1],
           [Node("Return", 0) EXCEPT !.parent = last + 1],
           [BoolOp(c) EXCEPT !.parent = last + 2]>>
    ELSE <<[Node("If", 0) EXCEPT !.parent = 1],
           [Method("FunctionDef", T_run) EXCEPT !.parent = last + 1],
           [Node("Return", 0) EXCEPT !.parent = last + 2],
           [BoolOp(0 - c) EXCEPT !.parent = last + 3]>>

RECURSIVE ClassWith(_, _)
ClassWith(t, complexities) ==
    IF complexities = <<>> THEN t
    ELSE ClassWith(t \o MethodLines(Head(complexities), Len(t)), Tail(complexities))

\* class S: up to 3 methods of complexity 1, 2 or 4, some under an `if`
MeasuredClasses ==
    {WithLines(ClassWith(<<Class(T_S)>>, cs), 0) :
        cs \in UNION {[1..n -> {1, 2, 4, 0 - 4}] : n \in 0..3} \cup {<<17>>}}

\* @dataclass class UserFactory(ABC): "text"; _instance = ...
RichClass ==
    WithLines(<<[Class(T_UserFactory) EXCEPT !.bases = <<T_ABC>>,
                    !.docstring = Some(T_text),
                    !.decorator_list = <<DataclassDecorator>>],
                [Assign(Target("Name", T__instance)) EXCEPT !.parent = 1]>>, 0)

InitElement ==
    /\ Constructed
    /\ hash_seed \in 0..MaxSeed
    /\ unit \in ScoredFunctions \cup BoundFunctions \cup ScoredClasses \cup MeasuredClasses
                \cup {RichClass}

\* self._process_function(node, file_path, source_code), node the root of unit
ProcessFunctionCall ==
    /\ calls < MaxCalls
    /\ unit[1].kind \in FunctionKinds
    /\ LET agent == AgentOf(stats, complexity_analyzer)
       IN /\ ret' = FunctionResult(unit, 1, agent, config, docstring_builder, hash_seed)
          /\ stats' = AgentAfterFunction(unit, 1, agent).stats
          /\ complexity_analyzer' = AgentAfterFunction(unit, 1, agent).complexity_analyzer
    /\ op' = "_process_function"
    /\ arg' = unit
    /\ calls' = calls + 1
    /\ UNCHANGED <<config, docstring_builder, hash_seed, unit, ref>>

\* self._process_class(node, file_path, source_code), node the root of unit
ProcessClassCall ==
    /\ calls < MaxCalls
    /\ unit[1].kind = "ClassDef"
    /\ LET agent == AgentOf(stats, complexity_analyzer)
       IN /\ ret' = ClassResult(unit, 1, agent, config, docstring_builder, hash_seed)
          /\ stats' = AgentAfterClass(unit, 1, agent, hash_seed).stats
    /\ op' = "_process_class"
    /\ arg' = unit
    /\ calls' = calls + 1
    /\ UNCHANGED <<complexity_analyzer, config, docstring_builder, hash_seed, unit, ref>>

NextElement == ProcessFunctionCall \/ ProcessClassCall

SpecElement == InitElement /\ [][NextElement]_vars

\* C1: for every analyzed element, function or class, the quality score and
\* the confidence score of the returned result lie in [0, 100] (0..200 half
\* points), whatever its complexity, size and counts.
C1_ScoresInRange ==
    op \in {"_process_function", "_process_class"} =>
        /\ ret.quality_score \in 0..200
        /\ ret.confidence_score \in 0..200

\* a function far over the line threshold is held at 0 while its confidence,
\* whose unclamped value is 105, is held at 100
C1_Witness ==
    /\ op = "_process_function"
    /\ ret.metrics.lines_of_code > 50 + 2 * 125
    /\ ret.quality_score = 0
    /\ ret.metrics.has_type_hints
    /\ Truthy(arg[1].docstring)
    /\ ret.confidence_score = 200

\* the quality score of a function as claim C9 states it, in half points,
\* from the result and the function it was computed for
ClaimedQuality(result, node) ==
    LET m == result.metrics
        score == 200
                 - (IF m.cyclomatic_complexity > 10
                    THEN 10 * (m.cyclomatic_complexity - 10) ELSE 0)
                 - (IF m.lines_of_code > 50 THEN m.lines_of_code - 50 ELSE 0)
                 - (IF m.num_parameters > 5 THEN 20 * (m.num_parameters - 5) ELSE 0)
                 + (IF m.has_type_hints THEN 30 ELSE -20)
                 + (IF result.has_existing_docstring THEN 20 ELSE 0)
                 + (IF node.decorator_list # <<>> THEN 10 ELSE 0)
    IN IF score < 0 THEN 0 ELSE IF score > 200 THEN 200 ELSE score

\* C9: the quality score of a function is the clamp to [0, 100] of 100, minus
\* 5 per point of complexity above 10, minus 0.5 per line above 50, minus 10
\* per parameter above 5, plus 15 with type hints else minus 10, plus 10 if
\* pre-existing documentation is present, plus 5 if any decorator is present.
C9_FunctionQualityFormula ==
    op = "_process_function" => ret.quality_score = ClaimedQuality(ret, arg[1])

(***************************************************************************)
(* Spec: the agent. process_code and process_file are called on the source *)
(* under study, on another source, on a text that does not parse and on a  *)
(* path with no file; the interactive 'style' command changes the          *)
(* configuration between calls.                                            *)
(***************************************************************************)
At(node, parent) == [node EXCEPT !.parent = parent]

\* async def create_user(a: int, b):
\*     "text"
\*     while ...:
\*         return a and b and ... (12 operands)
\*     yield
CreateUserLines ==
    <<[Node("AsyncFunctionDef", 0) EXCEPT !.name = T_create_user,
          !.args = <<Arg(T_a, Some(T_int)), Arg(T_b, None)>>, !.docstring = Some(T_text)],
      At(Node("While", 0), 1), At(Node("Return", 0), 2), At(BoolOp(12), 3),
      At(Node("Yield", 0), 1)>>

\* def f(a, b):
\*     if ...:
\*         return
PlainLines == <<PlainFunction, At(Node("If", 0), 1), At(Node("Return", 0), 2)>>

\* class UserFactory(Base):
\*     _instance = None
\*     def create(self):
\*         if ...: ...
FactoryLines ==
    <<[Class(T_UserFactory) EXCEPT !.bases = <<T_Base>>],
      At(Assign(Target("Name", T__instance)), 1),
      At(Method("FunctionDef", T_create), 1),
      At(Node("If", 0), 3)>>

\* the lines of `more` written after the lines of `t`, below node `parent`
\* of t (0: at module level)
Below(t, parent, more) ==
    t \o [k \in 1..Len(more) |->
             [more[k] EXCEPT !.parent = IF @ = 0 THEN parent ELSE @ + Len(t)]]

TwoFunctions == Source(TRUE, WithLines(Below(CreateUserLines, 0, PlainLines), 0))
ClassThenFunction == Source(TRUE, WithLines(Below(FactoryLines, 0, CreateUserLines), 0))
\* def f(a, b): if ...: return; class UserFactory(Base): ...
\* async def create_user(a: int, b): ...
Nested ==
    Source(TRUE, WithLines(Below(Below(PlainLines, 1, FactoryLines), 0, CreateUserLines), 0))
\* def run(self, /, a): ...   and   def build(cls, b): ...
SelfFirstLines ==
    <<[Node("FunctionDef", 0) EXCEPT !.name = T_run,
          !.posonlyargs = <<Arg(T_self, None)>>, !.args = <<Arg(T_a, None)>>],
      [Node("FunctionDef", 0) EXCEPT !.name = T_build,
          !.args = <<Arg(T_cls, None), Arg(T_b, None)>>]>>
SelfFirst == Source(TRUE, WithLines(SelfFirstLines, 0))
EmptyModule == Source(TRUE, <<>>)
\* def f(a, b): ... followed by a line that is not Python
Broken == Source(FALSE, WithLines(PlainLines, 0))

Sources == {TwoFunctions, ClassThenFunction, Nested, SelfFirst, EmptyModule}

Missing == File(FALSE, EmptyModule)

Init ==
    /\ Constructed
    /\ hash_seed \in 0..MaxSeed
    /\ unit \in Sources

\* what ret holds after a call
Returned(out) == [raised |-> out.raised, results |-> out.results]

\* ref keeps the results of the first successful analysis of `unit`, the
\* style configured then, and the number of that call
Remember(source, out) ==
    IF source = unit /\ out.raised = "" /\ ref = NoRet
    THEN [results |-> out.results, style |-> config.docstring_style, call |-> calls + 1]
    ELSE ref

\* agent.process_code(source)
ProcessCodeCall(source) ==
    /\ calls < MaxCalls
    /\ LET out == ProcessCode(source, AgentOf(stats, complexity_analyzer),
                              config, docstring_builder, hash_seed)
       IN /\ ret' = Returned(out)
          /\ stats' = out.agent.stats
          /\ complexity_analyzer' = out.agent.complexity_analyzer
          /\ ref' = Remember(source, out)
    /\ op' = "process_code"
    /\ arg' = source
    /\ calls' = calls + 1
    /\ UNCHANGED <<config, docstring_builder, hash_seed, unit>>

\* agent.process_file(path)
ProcessFileCall(file) ==
    /\ calls < MaxCalls
    /\ LET out == ProcessFile(file, AgentOf(stats, complexity_analyzer),
                              config, docstring_builder, hash_seed)
       IN /\ ret' = Returned(out)
          /\ stats' = out.agent.stats
          /\ complexity_analyzer' = out.agent.complexity_analyzer
          /\ ref' = Remember(file.source, out)
    /\ op' = "process_file"
    /\ arg' = file
    /\ calls' = calls + 1
    /\ UNCHANGED <<config, docstring_builder, hash_seed, unit>>

\* the 'style' command of the interactive mode: agent.config.docstring_style
SetStyle(style) ==
    /\ calls < MaxCalls
    /\ style # config.docstring_style
    /\ config' = [config EXCEPT !.docstring_style = style]
    /\ op' = "style"
    /\ calls' = calls + 1
    /\ UNCHANGED <<stats, complexity_analyzer, docstring_builder, hash_seed, unit,
                   arg, ret, ref>>

Next ==
    \/ \E source \in {unit, TwoFunctions, Broken} : ProcessCodeCall(source)
    \/ \E file \in {File(TRUE, unit), File(TRUE, Broken), Missing} : ProcessFileCall(file)
    \/ \E style \in Styles : SetStyle(style)

Spec == Init /\ [][Next]_vars

\* C3: analyzing the same source text again, under the same configuration,
\* returns results equal field by field to those of the first analysis,
\* pattern label order included, whatever the calls before left in the agent.
C3_SameResultsAgain ==
    (/\ op = "process_code"
     /\ arg = unit
     /\ ref # NoRet
     /\ ref.style = config.docstring_style) => ret.results = ref.results

\* the source is analyzed again after other calls; it has several elements
\* and one of them lists several pattern labels
C3_Witness ==
    /\ op = "process_code"
    /\ arg = unit
    /\ ref # NoRet
    /\ ref.call < calls - 1
    /\ ref.style = config.docstring_style
    /\ hash_seed > 0
    /\ Len(ret.results) >= 2
    /\ \E k \in 1..Len(ret.results) :
          \E j \in 1..Len(ret.results[k].generated_docstring) :
             Len(ret.results[k].generated_docstring[j].labels) >= 2
             /\ ret.results[k].generated_docstring[j].item \in {"pattern", "design pattern"}
    /\ ret.results = ref.results

\* C10: when the source text does not parse, process_code and process_file
\* raise a syntax error, return no results, and leave every counter as it was.
C10_ParseFailure ==
    [][((op' = "process_code" /\ calls' > calls /\ ~arg'.valid)
        \/ (op' = "process_file" /\ calls' > calls /\ arg'.exists /\ ~arg'.source.valid))
       => (/\ ret'.raised = "SyntaxError"
           /\ ret'.results = <<>>
           /\ stats' = stats)]_vars

\* a text that does not parse is given to an agent whose counters are not 0
C10_Witness ==
    /\ op = "process_code"
    /\ ~arg.valid
    /\ ret.raised = "SyntaxError"
    /\ stats.total_analyzed > 0
    /\ stats.total_functions > 0

\* a call of process_code or process_file that returned its results
Succeeded == op \in {"process_code", "process_file"} /\ ret.raised = ""

\* C11: the results of one unit appear in source declaration order: of two
\* analyzed elements, the one with the smaller starting line comes earlier in
\* the result sequence, nested functions and classes included.
C11_DeclarationOrder ==
    Succeeded =>
        \A j, k \in 1..Len(ret.results) :
            ret.results[j].line_number < ret.results[k].line_number => j < k

(***************************************************************************)
(* SpecConcurrent: two threads of a host run _process_function on the same *)
(* agent, each on its own function. analyze_function is a sequence of      *)
(* steps on the agent's one ComplexityAnalyzer: the reset, one visit_* per *)
(* node, and the reading of the counters into the CodeMetrics. The steps   *)
(* of the two threads interleave; the increment of the examples_generated  *)
(* counter is serialized (it is part of the last step).                    *)
(***************************************************************************)
Threads == {1, 2}

\* the order in which NodeVisitor.visit reaches the nodes: depth first
RECURSIVE VisitOrderFrom(_, _)
VisitOrderFrom(t, todo) ==
    IF todo = <<>> THEN <<>>
    ELSE <<Head(todo)>> \o VisitOrderFrom(t, Children(t, Head(todo)) \o Tail(todo))

SmallControlTrees == {t \in ControlTrees : Len(t) <= MaxNodes}

\* the function each thread processes
ThreadUnit(th) == IF th = 1 THEN unit ELSE WithLines(PlainLines, 0)

Idle == [pc |-> "idle", todo |-> <<>>]

InitConcurrent ==
    /\ stats = NoStats
    /\ complexity_analyzer = NewComplexityAnalyzer
    /\ config = [docstring_style |-> "google"]
    /\ docstring_builder = [style |-> "google"]
    /\ hash_seed = 0
    /\ unit \in SmallControlTrees
    /\ arg = [th \in Threads |-> Idle]
    /\ ret = [th \in Threads |-> NoRet]
    /\ op = "init"
    /\ calls = 0
    /\ ref = NoRet

\* analyze_function, lines 101-102, and the start of self.visit(node)
BeginAnalysis(th) ==
    /\ arg[th].pc = "idle"
    /\ complexity_analyzer' = ResetCounters(complexity_analyzer)
    /\ arg' = [arg EXCEPT ![th] = [pc |-> "visiting",
                                   todo |-> VisitOrderFrom(ThreadUnit(th), <<1>>)]]
    /\ op' = "analyze_function"
    /\ UNCHANGED <<stats, config, docstring_builder, hash_seed, unit, ret, calls, ref>>

\* one visit_* call of the traversal
VisitStep(th) ==
    /\ arg[th].pc = "visiting"
    /\ arg[th].todo # <<>>
    /\ complexity_analyzer' =
           VisitNode(ThreadUnit(th)[Head(arg[th].todo)], complexity_analyzer)
    /\ arg' = [arg EXCEPT ![th].todo = Tail(@)]
    /\ op' = "visit"
    /\ UNCHANGED <<stats, config, docstring_builder, hash_seed, unit, ret, calls, ref>>

\* analyze_function, lines 105-124, and the rest of _process_function
FinishAnalysis(th) ==
    /\ arg[th].pc = "visiting"
    /\ arg[th].todo = <<>>
    /\ LET analyzed == MetricsOfFunction(ThreadUnit(th), 1, complexity_analyzer)
       IN /\ ret' = [ret EXCEPT ![th] =
                        FunctionResultFrom(ThreadUnit(th), 1, analyzed, config,
                                           docstring_builder, hash_seed)]
          /\ stats' = StatsAfterFunction(ThreadUnit(th), 1, analyzed, stats)
    /\ arg' = [arg EXCEPT ![th].pc = "done"]
    /\ op' = "_process_function"
    /\ calls' = calls + 1
    /\ UNCHANGED <<complexity_analyzer, config, docstring_builder, hash_seed, unit, ref>>

NextConcurrent ==
    \E th \in Threads : BeginAnalysis(th) \/ VisitStep(th) \/ FinishAnalysis(th)

SpecConcurrent == InitConcurrent /\ [][NextConcurrent]_vars

\* what _process_function returns for the thread's function on an agent
\* nobody else is using
AloneResult(th) ==
    FunctionResult(ThreadUnit(th), 1, AgentOf(NoStats, NewComplexityAnalyzer),
                   config, docstring_builder, hash_seed)

\* C12: when two analyses run concurrently on the same agent, the counter
\* increments serialized, each returns the same results as when it runs
\* alone, the complexity and return-statement counts of its function included.
C12_SameAsAlone ==
    \A th \in Threads : arg[th].pc = "done" => ret[th] = AloneResult(th)

\* the names of the counters in stats
Counters == {"total_analyzed", "total_functions", "total_classes",
             "patterns_detected", "examples_generated"}

\* what the call that led to the next state returns on an agent whose
\* counters are all 0 and that is otherwise as this state's agent
WithCountersAtZero ==
    LET agent == AgentOf(NoStats, complexity_analyzer)
    IN IF op' = "process_code"
       THEN Returned(ProcessCode(arg', agent, config, docstring_builder, hash_seed))
       ELSE Returned(ProcessFile(arg', agent, config, docstring_builder, hash_seed))

\* C13: across any sequence of process_file / process_code calls, successful
\* or failing, no counter ever decreases, and what a call returns (scores,
\* confidence, suggestions, rendered text) does not depend on the counters.
C13_CountersOnlyGrow ==
    [][/\ \A c \in Counters : stats'[c] >= stats[c]
       /\ (op' \in {"process_code", "process_file"} /\ calls' > calls)
              => ret' = WithCountersAtZero]_vars

\* a call returns results on an agent that has counted elements of earlier
\* calls in every counter
C13_Witness ==
    /\ Succeeded
    /\ Len(ret.results) > 0
    /\ stats.total_analyzed > Len(ret.results)
    /\ stats.total_functions > 0
    /\ stats.total_classes > 0
    /\ stats.patterns_detected > 0
    /\ stats.examples_generated > 1
    /\ calls = MaxCalls

(***************************************************************************)
(* SpecDialect: a DocstringBuilder is constructed for each dialect and     *)
(* build_function_docstring / build_class_docstring is called with the     *)
(* same description, metrics and pattern labels                            *)
(***************************************************************************)
\* def/async def name(a, b=10) -> int: while ...: return a and ...; raise ...
DialectFunction(kind, name, operands, defaults, returns, raising) ==
    WithLines(<<[Node(kind, 0) EXCEPT !.name = name, !.args = ManyArgs(2, None),
                                     !.defaults = defaults, !.returns = returns],
                At(Node("While", 0), 1), At(Node("Return", 0), 2),
                At(BoolOp(operands), 3)>>
              \o (IF raising THEN <<At(Raise(Some(T_ValueErrorCall)), 1)>> ELSE <<>>), 0)

DialectFunctions ==
    {DialectFunction(x[1], x[2], x[3], x[4], x[5], x[6]) :
        x \in FunctionKinds \X {T_f, T_create_user} \X {2, 12} \X {<<>>, <<T_10>>}
              \X {None, Some(T_int)} \X BOOLEAN}

\* def f(): pass
BareFunction == WithLines(<<[Node("FunctionDef", 0) EXCEPT !.name = T_f]>>, 0)

DialectClasses ==
    {ScoredClass(x[1], x[2], None, <<>>, x[3], 1) :
        x \in {T_S, T_UserFactory} \X {<<>>, <<T_Base>>} \X {0, 1}}

\* what the builder is given for the element at the root of unit
Described ==
    IF unit[1].kind = "ClassDef"
    THEN [info |-> ExtractClassInfo(unit, 1), metrics |-> AnalyzeClass(unit, 1),
          patterns |-> DetectClassPatterns(unit, 1, hash_seed)]
    ELSE [info |-> ExtractFunctionInfo(unit, 1),
          metrics |-> AnalyzeFunction(unit, 1, NewComplexityAnalyzer),
          patterns |-> DetectFunctionPatterns(unit, 1, hash_seed)]

InitDialect ==
    /\ stats = NoStats
    /\ complexity_analyzer = NewComplexityAnalyzer
    /\ config = [docstring_style |-> "google"]
    /\ docstring_builder = [style |-> "google"]
    /\ hash_seed = 0
    /\ unit \in DialectFunctions \cup {BareFunction} \cup DialectClasses
    /\ arg = NoRet
    /\ ret = [style \in Styles |-> <<>>]
    /\ op = "init"
    /\ calls = 0
    /\ ref = NoRet

\* DocstringBuilder(Config(docstring_style=style)).build_function_docstring(...)
BuildFunctionDocstringCall(style) ==
    /\ unit[1].kind \in FunctionKinds
    /\ ret[style] = <<>>
    /\ docstring_builder' = [style |-> style]
    /\ config' = [docstring_style |-> style]
    /\ arg' = Described
    /\ ret' = [ret EXCEPT ![style] =
                  BuildFunctionDocstring([style |-> style], Described.info,
                                         Described.metrics, Described.patterns)]
    /\ op' = "build_function_docstring"
    /\ UNCHANGED <<stats, complexity_analyzer, hash_seed, unit, calls, ref>>

\* DocstringBuilder(Config(docstring_style=style)).build_class_docstring(...)
BuildClassDocstringCall(style) ==
    /\ unit[1].kind = "ClassDef"
    /\ ret[style] = <<>>
    /\ docstring_builder' = [style |-> style]
    /\ config' = [docstring_style |-> style]
    /\ arg' = Described
    /\ ret' = [ret EXCEPT ![style] =
                  BuildClassDocstring([style |-> style], Described.info,
                                      Described.metrics, Described.patterns)]
    /\ op' = "build_class_docstring"
    /\ UNCHANGED <<stats, complexity_analyzer, hash_seed, unit, calls, ref>>

NextDialect ==
    \E style \in Styles : BuildFunctionDocstringCall(style) \/ BuildClassDocstringCall(style)

SpecDialect == InitDialect /\ [][NextDialect]_vars

\* the content items a rendering holds; the default note of a parameter
\* entry is an item of its own
ContentItems(docstring) ==
    {docstring[k].item : k \in 1..Len(docstring)}
    \cup {"default note" : k \in {j \in 1..Len(docstring) :
                                     "default" \in SeqToSet(docstring[j].labels)}}

\* C14: for the same description, metrics and pattern labels the three
\* dialects make identical content decisions: each content item (pattern
\* list, complexity warning, parameter entries with their default notes,
\* return section, raises entries, async note, inheritance line, attribute
\* entries) is in one dialect's rendering iff it is in the other two.
C14_SameContentDecisions ==
    \A s1, s2 \in Styles :
        (ret[s1] # <<>> /\ ret[s2] # <<>>) => ContentItems(ret[s1]) = ContentItems(ret[s2])

\* the names of a list of ast.arg or of ParameterInfo
ArgNamesOf(args) == [k \in 1..Len(args) |-> args[k].arg]
ParameterNames(parameters) == [k \in 1..Len(parameters) |-> parameters[k].name]

\* C15: a declared positional parameter is left out of the recorded list iff
\* it is the first declared parameter and the function is determined to be a
\* method; every other one is recorded, in declaration order.
C15_OnlyImplicitBindingLeftOut ==
    op = "_extract_function_info" =>
        ParameterNames(ret.parameters) =
            (IF ret.is_method THEN Tail(ArgNamesOf(DeclaredParameters(arg[1])))
             ELSE ArgNamesOf(DeclaredParameters(arg[1])))

\* clamp to [0, 100], in half points, as the claims state it
ClaimedClamp(score) == IF score < 0 THEN 0 ELSE IF score > 200 THEN 200 ELSE score

\* the quality score of a class as claim C16 states it, in half points,
\* from the result and the class it was computed for
ClaimedClassQuality(result, t) ==
    LET methods == Cardinality({n \in 1..Len(t) : t[n].parent = 1
                                                   /\ t[n].kind \in FunctionKinds})
        bases == Len(t[1].bases)
    IN ClaimedClamp(200
           - (IF methods = 0 THEN 40 ELSE 0)
           - (IF methods > 20 THEN 4 * (methods - 20) ELSE 0)
           + (IF result.has_existing_docstring THEN 30 ELSE 0)
           + (IF bases \in {1, 2} THEN 20 ELSE 0)
           - (IF bases > 2 THEN 20 ELSE 0)
           + (IF ExtractClassInfo(t, 1).attributes # <<>> THEN 10 ELSE 0))

\* C16: the quality score of a class is the clamp to [0, 100] of 100, minus
\* 20 with zero methods, minus 2 per method above 20, plus 15 if pre-existing
\* documentation is present, plus 10 with 1 or 2 bases, minus 10 with more
\* than 2 bases, plus 5 if any attribute is recorded.
C16_ClassQualityFormula ==
    op = "_process_class" => ret.quality_score = ClaimedClassQuality(ret, arg)

\* the pattern labels detected for the element at the root of t
PatternsOf(t) ==
    IF t[1].kind = "ClassDef" THEN DetectClassPatterns(t, 1, hash_seed)
    ELSE DetectFunctionPatterns(t, 1, hash_seed)

\* the confidence score as claim C17 states it, in half points
ClaimedConfidence(result, t) ==
    ClaimedClamp(140
        + (IF result.metrics.has_type_hints THEN 30 ELSE 0)
        + (IF PatternsOf(t) # <<>>
           THEN 2 * (IF 3 * Len(PatternsOf(t)) < 10 THEN 3 * Len(PatternsOf(t)) ELSE 10)
           ELSE 0)
        - (IF result.metrics.cyclomatic_complexity > 15 THEN 20 ELSE 0)
        + (IF result.has_existing_docstring THEN 20 ELSE 0))

\* C17: the confidence score of every element is the clamp to [0, 100] of
\* 70, plus 15 with type hints, plus min(10, 3 x number of pattern labels) if
\* any pattern was detected, minus 10 if complexity exceeds 15, plus 10 if
\* pre-existing documentation is present.
C17_ConfidenceFormula ==
    op \in {"_process_function", "_process_class"} =>
        ret.confidence_score = ClaimedConfidence(ret, arg)

\* the suggestions of a function as claim C18 states them
ClaimedSuggestions(result) ==
    {s \in {Suggestion("type_hints", "warning"), Suggestion("complexity", "warning"),
            Suggestion("parameters", "info"), Suggestion("documentation", "error")} :
        \/ s.category = "type_hints" /\ ~result.metrics.has_type_hints
        \/ s.category = "complexity" /\ result.metrics.cyclomatic_complexity > 10
        \/ s.category = "parameters" /\ result.metrics.num_parameters > 5
        \/ s.category = "documentation" /\ ~result.has_existing_docstring}

\* C18: the suggestion list of a function holds, at most once each and
\* independently, a type_hints warning iff there are no type hints, a
\* complexity warning iff complexity > 10, a parameters info iff the
\* parameter count > 5 and a documentation error iff there is no pre-existing
\* documentation, and nothing else.
C18_FunctionSuggestions ==
    op = "_process_function" =>
        /\ SeqToSet(ret.suggestions) = ClaimedSuggestions(ret)
        /\ Len(ret.suggestions) = Cardinality(ClaimedSuggestions(ret))

\* the example lines of a rendered documentation
ExampleLines(docstring) == SelectSeq(docstring, LAMBDA l : l.item = "example")

\* the declared parameters that are recorded: those not named self or cls
RecordedCount(node) ==
    Cardinality({k \in 1..Len(node.args) : node.args[k].arg \notin {T_self, T_cls}})

C20_AsyncExampleAwaits ==
    (op = "_process_function" /\ arg[1].kind = "AsyncFunctionDef") =>
        \A k \in 1..Len(ExampleLines(ret.generated_docstring)) :
            Contains(ExampleLines(ret.generated_docstring)[k].words[1], X_await)

\* the functions declared directly in the body of the class at the root
DirectMethods(t) == {j \in 1..Len(t) : t[j].parent = 1 /\ t[j].kind \in FunctionKinds}

\* what a counter starting at 1 holds after the subtree of node i: one per
\* node the analyzer has a visit_ method for, k - 1 per BoolOp of k operands
CountedAlone(t, i) ==
    1 + CountKinds(t, i, {"If", "For", "While", "ExceptHandler", "With"})
      + SumExtraOperands(Subtree(t, i), t)

RECURSIVE SumCountedAlone(_, _)
SumCountedAlone(S, t) ==
    IF S = {} THEN 0
    ELSE LET j == CHOOSE x \in S : TRUE
         IN CountedAlone(t, j) + SumCountedAlone(S \ {j}, t)

\* C21: for a class, the reported complexity is the integer-truncated average
\* of the complexities of its directly declared methods, each computed alone
\* from a counter starting at 1, and 1 when the class declares no method; the
\* parameter-count field holds the method count, the return-statement count
\* is 0 and the type-hint coverage is false.
C21_ClassMetrics ==
    op = "_process_class" =>
        LET methods == DirectMethods(arg)
        IN /\ ret.metrics.cyclomatic_complexity =
                  (IF methods = {} THEN 1
                   ELSE SumCountedAlone(methods, arg) \div Cardinality(methods))
           /\ ret.metrics.num_parameters = Cardinality(methods)
           /\ ret.metrics.num_return_statements = 0
           /\ ret.metrics.has_type_hints = FALSE

\* three methods of complexities 2, 4 and 4 (with return statements): the
\* class reports complexity 3
C21_Witness ==
    /\ op = "_process_class"
    /\ Cardinality(DirectMethods(arg)) = 3
    /\ SumCountedAlone(DirectMethods(arg), arg) = 10
    /\ CountKinds(arg, 1, {"Return"}) = 3
    /\ ret.metrics.cyclomatic_complexity = 3

(***************************************************************************)
(* SpecMaintain: analyze_function and analyze_class on elements of several *)
(* complexities and sizes; ref keeps the metrics of the call before        *)
(***************************************************************************)
\* def f(): while ...: return a and b and ..., over 4 + pad lines
MaintainedFunctions ==
    {ScoredFunction("FunctionDef", T_f, 0, None, None, <<>>, x[1], x[2]) :
        x \in {2, 12, 17, MaxOperands} \X {0, 60, MaxPad}}

\* class S with methods of the given complexities, the class padded
MaintainedClasses ==
    {WithLines(ClassWith(<<Class(T_S)>>, x[1]), x[2]) :
        x \in {<<>>, <<4>>, <<2, 4, 4>>, <<12, 12>>, <<MaxOperands>>} \X {0, 60, MaxPad}}

InitMaintain ==
    /\ Constructed
    /\ hash_seed = 0
    /\ unit = BusyFunction

\* complexity_analyzer.analyze_function(node), node the root of t
MeasureFunction(t) ==
    /\ ret' = AnalyzeFunction(t, 1, complexity_analyzer)
    /\ complexity_analyzer' = AnalyzerAfterFunction(t, 1, complexity_analyzer)
    /\ ref' = [kind |-> op, metrics |-> ret]
    /\ op' = "analyze_function"
    /\ arg' = t
    /\ UNCHANGED <<stats, config, docstring_builder, hash_seed, unit, calls>>

\* complexity_analyzer.analyze_class(node), node the root of t
MeasureClass(t) ==
    /\ ret' = AnalyzeClass(t, 1)
    /\ ref' = [kind |-> op, metrics |-> ret]
    /\ op' = "analyze_class"
    /\ arg' = t
    /\ UNCHANGED <<stats, complexity_analyzer, config, docstring_builder, hash_seed,
                   unit, calls>>

NextMaintain ==
    \/ \E t \in MaintainedFunctions : MeasureFunction(t)
    \/ \E t \in MaintainedClasses : MeasureClass(t)

SpecMaintain == InitMaintain /\ [][NextMaintain]_vars

\* the metrics `later` have the complexity or the line count of `earlier`
\* and at least its value in the other
GrewInOne(earlier, later) ==
    \/ /\ later.cyclomatic_complexity >= earlier.cyclomatic_complexity
       /\ later.lines_of_code = earlier.lines_of_code
    \/ /\ later.cyclomatic_complexity = earlier.cyclomatic_complexity
       /\ later.lines_of_code >= earlier.lines_of_code

\* C22: the maintainability estimate of every function and every class lies
\* in [0, 100] (here in tenths), and of two functions, or two classes, the
\* one with the higher complexity at equal line count, or the higher line
\* count at equal complexity, never has the higher estimate.
C22_MaintainabilityBounded ==
    op \in {"analyze_function", "analyze_class"} =>
        /\ ret.maintainability_index \in 0..1000
        /\ (ref.kind = op /\ GrewInOne(ref.metrics, ret))
               => ret.maintainability_index <= ref.metrics.maintainability_index

\* a function of complexity 42 follows one of complexity 13 of the same
\* length: the estimate falls from 59 to the floor 0
C22_Witness ==
    /\ op = "analyze_function"
    /\ ref.kind = op
    /\ ref.metrics.lines_of_code = ret.lines_of_code
    /\ ref.metrics.cyclomatic_complexity = 13
    /\ ref.metrics.maintainability_index = 590
    /\ ret.cyclomatic_complexity > 33
    /\ ret.maintainability_index = 0

\* C23: in every dialect, the rendered documentation of a function contains
\* a return section iff the function has a declared return type or its
\* return-statement count is greater than 0.
C23_ReturnSectionRule ==
    \A style \in Styles :
        (unit[1].kind \in FunctionKinds /\ ret[style] # <<>>) =>
            ((\E k \in 1..Len(ret[style]) : ret[style][k].item = "returns")
                <=> (unit[1].returns # None \/ arg.metrics.num_return_statements > 0))

\* C24: after any sequence of completed analyses on an agent (here: calls
\* analyses of the element `unit`), patterns_detected equals the total number
\* of pattern labels detected over all elements analyzed so far, functions
\* and classes alike, and examples_generated equals the number of results
\* whose documentation received an example.
C24_PatternAndExampleCounters ==
    op \in {"_process_function", "_process_class"} =>
        /\ stats.patterns_detected = calls * Len(PatternsOf(unit))
        /\ stats.examples_generated =
               calls * Len(ExampleLines(ret.generated_docstring))

(***************************************************************************)
(* SpecSteps: one call of _process_function or _process_class, statement   *)
(* by statement; arg holds the locals of the call and the position in it   *)
(***************************************************************************)
IsFunction == unit[1].kind \in FunctionKinds

NoLocals == [pc |-> "start", info |-> NoRet, metrics |-> NoRet, patterns |-> <<>>,
             docstring |-> <<>>, suggestions |-> <<>>, confidence |-> 0]

InitSteps ==
    /\ stats = NoStats
    /\ complexity_analyzer = NewComplexityAnalyzer
    /\ config = [docstring_style |-> "google"]
    /\ docstring_builder = [style |-> "google"]
    /\ arg = NoLocals
    /\ ret = NoRet
    /\ op = "init"
    /\ calls = 0
    /\ ref = NoRet
    /\ hash_seed \in 0..MaxSeed
    /\ unit \in BoundFunctions \cup MeasuredClasses

\* what a statement leaves alone besides the locals
Frame == UNCHANGED <<config, docstring_builder, hash_seed, unit, calls, ref, ret>>

\* func_info = self._extract_function_info(node) / class_info = ...
ExtractStep ==
    /\ arg.pc = "start"
    /\ arg' = [arg EXCEPT !.pc = "extracted",
                          !.info = IF IsFunction THEN ExtractFunctionInfo(unit, 1)
                                   ELSE ExtractClassInfo(unit, 1)]
    /\ op' = "extract"
    /\ UNCHANGED <<stats, complexity_analyzer>> /\ Frame

\* metrics = self.complexity_analyzer.analyze_function(node) / analyze_class(node)
AnalyzeStep ==
    /\ arg.pc = "extracted"
    /\ arg' = [arg EXCEPT !.pc = "analyzed",
                          !.metrics = IF IsFunction
                                      THEN AnalyzeFunction(unit, 1, complexity_analyzer)
                                      ELSE AnalyzeClass(unit, 1)]
    /\ complexity_analyzer' = IF IsFunction
                              THEN AnalyzerAfterFunction(unit, 1, complexity_analyzer)
                              ELSE complexity_analyzer
    /\ op' = "analyze"
    /\ UNCHANGED stats /\ Frame

\* metrics.quality_score = self._calculate_quality_score(metrics, func_info)
ScoreStep ==
    /\ arg.pc = "analyzed"
    /\ arg' = [arg EXCEPT !.pc = "scored",
                          !.metrics.quality_score =
                              IF IsFunction THEN CalculateQualityScore(arg.metrics, arg.info)
                              ELSE CalculateClassQualityScore(arg.metrics, arg.info)]
    /\ op' = "score"
    /\ UNCHANGED <<stats, complexity_analyzer>> /\ Frame

\* patterns = self.pattern_detector.detect_..._patterns(node, source_code);
\* for a class: self.stats['patterns_detected'] += len(patterns)
DetectStep ==
    /\ arg.pc = "scored"
    /\ arg' = [arg EXCEPT !.pc = "detected", !.patterns = PatternsOf(unit)]
    /\ stats' = IF IsFunction THEN stats
                ELSE [stats EXCEPT !.patterns_detected = @ + Len(PatternsOf(unit))]
    /\ op' = "detect"
    /\ UNCHANGED complexity_analyzer /\ Frame

\* the locals after docstring = self.docstring_builder.build_..._docstring(...)
RenderedAndRescored(locals) ==
    [locals EXCEPT !.pc = "rendered", !.metrics.quality_score = 0]
Rendered(locals) ==
    [locals EXCEPT !.pc = "rendered",
                   !.docstring =
                       IF IsFunction
                       THEN BuildFunctionDocstring(docstring_builder, locals.info,
                                                   locals.metrics, locals.patterns)
                       ELSE BuildClassDocstring(docstring_builder, locals.info,
                                                locals.metrics, locals.patterns)]

RenderStep ==
    /\ arg.pc = "detected"
    /\ arg' = Rendered(arg)
    /\ op' = "render"
    /\ UNCHANGED <<stats, complexity_analyzer>> /\ Frame

\* suggestions = self._generate_suggestions(...) / _generate_class_suggestions(...)
SuggestStep ==
    /\ arg.pc = "rendered"
    /\ arg' = [arg EXCEPT !.pc = "suggested",
                          !.suggestions =
                              IF IsFunction
                              THEN GenerateSuggestions(arg.info, arg.metrics, arg.patterns)
                              ELSE GenerateClassSuggestions(arg.info, arg.metrics,
                                                            arg.patterns)]
    /\ op' = "suggest"
    /\ UNCHANGED <<stats, complexity_analyzer>> /\ Frame

\* _process_function, lines 212-216: the example, when one is wanted
ExampleStep ==
    /\ arg.pc = "suggested"
    /\ IsFunction
    /\ IF WantsExample(arg.metrics, arg.info)
       THEN /\ arg' = [arg EXCEPT !.pc = "exampled",
                          !.docstring = @ \o <<Line("example", <<>>,
                                                    <<GenerateExample(arg.info)>>, 0)>>]
            /\ stats' = [stats EXCEPT !.examples_generated = @ + 1]
       ELSE /\ arg' = [arg EXCEPT !.pc = "exampled"]
            /\ stats' = stats
    /\ op' = "example"
    /\ UNCHANGED complexity_analyzer /\ Frame

\* confidence = self._calculate_confidence_score(info, metrics, patterns)
ConfidenceStep ==
    /\ arg.pc = (IF IsFunction THEN "exampled" ELSE "suggested")
    /\ arg' = [arg EXCEPT !.pc = "confident",
                          !.confidence = CalculateConfidenceScore(arg.info, arg.metrics,
                                                                  arg.patterns)]
    /\ op' = "confidence"
    /\ UNCHANGED <<stats, complexity_analyzer>> /\ Frame

\* return DocstringResult(...)
ReturnStep ==
    /\ arg.pc = "confident"
    /\ arg' = [arg EXCEPT !.pc = "done"]
    /\ ret' = [element_type |-> IF ~IsFunction THEN "class"
                                ELSE IF arg.info.is_method THEN "method" ELSE "function",
               element_name |-> arg.info.name,
               line_number |-> unit[1].lineno,
               generated_docstring |-> arg.docstring,
               style |-> config.docstring_style,
               quality_score |-> arg.metrics.quality_score,
               metrics |-> arg.metrics,
               suggestions |-> arg.suggestions,
               has_existing_docstring |-> arg.info.existing_docstring # None,
               confidence_score |-> arg.confidence]
    /\ op' = "return"
    /\ UNCHANGED <<stats, complexity_analyzer, config, docstring_builder, hash_seed,
                   unit, calls, ref>>

NextSteps ==
    \/ ExtractStep \/ AnalyzeStep \/ ScoreStep \/ DetectStep \/ RenderStep
    \/ SuggestStep \/ ExampleStep \/ ConfidenceStep \/ ReturnStep

SpecSteps == InitSteps /\ [][NextSteps]_vars

\* C25: the metrics of an element leave the estimator with quality_score 0
\* and are then written once, by the scoring step, which writes no other
\* field; no later step (pattern detection, rendering, suggestions, example,
\* confidence) changes any metrics field, and the returned result holds
\* these metrics and, as its quality_score, their quality_score.
C25_MetricsWrittenOnce ==
    [][/\ op' = "analyze" => arg'.metrics.quality_score = 0
       /\ op' = "score" =>
              arg'.metrics = [arg.metrics EXCEPT !.quality_score = arg'.metrics.quality_score]
       /\ op' \in {"detect", "render", "suggest", "example", "confidence", "return"}
              => arg'.metrics = arg.metrics
       /\ op' = "return" => /\ ret'.metrics = arg.metrics
                            /\ ret'.quality_score = ret'.metrics.quality_score]_vars

\* a result is returned whose metrics hold a score other than the 0 the
\* estimator left, after an example was added to the documentation
C25_Witness ==
    /\ op = "return"
    /\ ret.metrics.quality_score > 0
    /\ ret.quality_score = ret.metrics.quality_score
    /\ ExampleLines(ret.generated_docstring) # <<>>

\* the statements taken one by one give the result of the whole handler
StepsGiveResult ==
    op = "return" =>
        ret = (IF IsFunction
               THEN FunctionResult(unit, 1, AgentOf(NoStats, NewComplexityAnalyzer),
                                   config, docstring_builder, hash_seed)
               ELSE ClassResult(unit, 1, AgentOf(NoStats, NewComplexityAnalyzer),
                                config, docstring_builder, hash_seed))

\* C26: after every completed process_file / process_code call, in any
\* sequence of such calls on one agent, total_analyzed equals
\* total_functions + total_classes, and the call raised total_analyzed by
\* exactly the number of results it returned.
C26_AnalyzedCountsResults ==
    [][(op' \in {"process_code", "process_file"} /\ calls' > calls /\ ret'.raised = "")
       => (/\ stats'.total_analyzed = stats'.total_functions + stats'.total_classes
           /\ stats'.total_analyzed = stats.total_analyzed + Len(ret'.results))]_vars

\* the third call returns several results, after calls that counted classes
\* and functions
C26_Witness ==
    /\ Succeeded
    /\ calls = MaxCalls
    /\ Len(ret.results) >= 2
    /\ stats.total_classes > 0
    /\ stats.total_functions > stats.total_classes
    /\ stats.total_analyzed > 2 * Len(ret.results)

\* C27: the confidence score of every element is at least 60 and the
\* confidence score of every class is at most 90 (in half points: 120 and
\* 180), so the lower clamp at 0 is never reached.
C27_ConfidenceRange ==
    op \in {"_process_function", "_process_class"} =>
        /\ ret.confidence_score >= 120
        /\ ret.element_type = "class" => ret.confidence_score <= 180

\* a class of complexity above 15 without patterns or documentation has
\* confidence 60
C27_Witness ==
    /\ op = "_process_class"
    /\ ret.metrics.cyclomatic_complexity > 15
    /\ ret.confidence_score = 120

\* a documented class with four pattern labels has confidence 90
C27_ClassAtNinety ==
    /\ op = "_process_class"
    /\ Len(PatternsOf(arg)) >= 4
    /\ ret.has_existing_docstring
    /\ ret.confidence_score = 180

\* C28: every result treats pre-existing documentation consistently: its
\* suggestions contain a 'documentation' error iff its has_existing_docstring
\* flag is false, and the documentation bonus entered its quality and
\* confidence scores iff that flag is true, the empty string included.
C28_DocumentationConsistent ==
    op \in {"_process_function", "_process_class"} =>
        /\ (\E k \in 1..Len(ret.suggestions) :
               ret.suggestions[k] = Suggestion("documentation", "error"))
               <=> ~ret.has_existing_docstring
        /\ ret.confidence_score = ClaimedConfidence(ret, arg)
        /\ ret.quality_score = (IF op = "_process_class" THEN ClaimedClassQuality(ret, arg)
                                ELSE ClaimedQuality(ret, arg[1]))

\* the source text a call of process_code or process_file was given
SourceOf(call, given) == IF call = "process_file" THEN given.source ELSE given

\* the documentation of the elements of `source` rendered in dialect `style`
RenderedIn(style, source) ==
    LET out == ProcessCode(source, AgentOf(NoStats, NewComplexityAnalyzer),
                           [docstring_style |-> style], [style |-> style], hash_seed)
    IN [k \in 1..Len(out.results) |-> out.results[k].generated_docstring]

\* C29: in every result, the style field names the dialect in which
\* generated_docstring was rendered, for any sequence of analyses
\* interleaved with changes of config.docstring_style on a live agent.
C29_StyleNamesDialect ==
    Succeeded =>
        \A k \in 1..Len(ret.results) :
            ret.results[k].generated_docstring =
                RenderedIn(ret.results[k].style, SourceOf(op, arg))[k]

\* the definitions of tree t that are to yield a result: the classes, and
\* the functions with no class above them
Analyzed(t) ==
    {i \in 1..Len(t) :
        \/ t[i].kind = "ClassDef"
        \/ /\ t[i].kind \in FunctionKinds
           /\ \A c \in PathToRoot(t, i) \ {0} : t[c].kind # "ClassDef"}

\* the first positional parameter of a function is named self or cls
SelfFirstDeclared(node) ==
    /\ DeclaredParameters(node) # <<>>
    /\ DeclaredParameters(node)[1].arg \in {T_self, T_cls}

\* C30, first part: per analysis call every class and every function not
\* nested in a class yields exactly one result, and a function nested in a
\* class yields none.
OneResultPerElement ==
    Succeeded =>
        LET t == SourceOf(op, arg).tree
        IN /\ Len(ret.results) = Cardinality(Analyzed(t))
           /\ \A i \in Analyzed(t) :
                 \E k \in 1..Len(ret.results) :
                    /\ ret.results[k].line_number = t[i].lineno
                    /\ ret.results[k].element_name = t[i].name

\* C30: per analysis call, every class definition and every function
\* definition not nested at any depth inside a class body yields exactly one
\* result, and a function nested inside a class body yields none; a function
\* result has kind 'method' iff its first positional parameter is named self
\* or cls, otherwise 'function'.
C30_ResultsAndKinds ==
    /\ OneResultPerElement
    /\ Succeeded =>
          LET t == SourceOf(op, arg).tree
          IN \A i \in Analyzed(t) : \A k \in 1..Len(ret.results) :
                (ret.results[k].line_number = t[i].lineno /\ t[i].kind \in FunctionKinds)
                    => ret.results[k].element_type =
                           (IF SelfFirstDeclared(t[i]) THEN "method" ELSE "function")
====
